---- MODULE Spec2Model ----
(***************************************************************************)
(* A model of the comics-compressor batch pipeline: the per-file state     *)
(* machine of Pipeline.ProcessFile, the backup Manager, the archive        *)
(* Writer's temp-file protocol and the directory worker pool, over an      *)
(* explicit file system.                                                    *)
(*                                                                         *)
(* A path is a sequence of tokens <<dir, stem, ..., ext>>; string          *)
(* concatenation on paths (basePath + ".compressed.tmp.cbz", the "_%d"     *)
(* suffix of uniquePathLocked) is concatenation of token sequences.        *)
(* A file's bytes are a record: two files are byte-identical iff the       *)
(* records are equal.                                                       *)
(*                                                                         *)
(* Thread 0 is the goroutine that called ProcessDirectory; threads 1..N    *)
(* are the pool's workers.  Every system call of the code is one step.     *)
(***************************************************************************)
EXTENDS Integers, Sequences, FiniteSets, TLC

\* ---------------------------------------------------------------- bounds
MaxFiles == 2
MaxWorkers == 2
MaxImages == 1
MaxPre == 1
MaxQuality == 70
MaxSize == 3
MaxDim == 2
MaxEntries == 2
MaxOthers == 1
MaxZip == 3
MaxData == 1

\* ---------------------------------------------------------------- paths
NoOne == 0 - 1
NoPath == <<>>

BackupDirName == "originals_backup/"

Dir(i) == "d" \o ToString(i) \o "/"

\* the i-th archive the directory walk collects (all share one base name)
CandidatePath(i) == <<Dir(i), "x", ".cbz">>

\* filepath.Base: the path without its directory
Base(path) == Tail(path)

\* filepath.Ext: the last extension of the path
Ext(path) == path[Len(path)]

\* filepath.Join(m.backupDir, filepath.Base(originalPath))
BackupPath(originalPath) == <<BackupDirName>> \o Base(originalPath)

\* fmt.Sprintf("%s_%d%s", base, i, ext) of uniquePathLocked
SuffixedPath(path, i) ==
    SubSeq(path, 1, Len(path) - 1) \o <<"_" \o ToString(i)>> \o <<Ext(path)>>

\* basePath + ".compressed.tmp.cbz" of CreateTemp
TempPath(basePath) == basePath \o <<".compressed", ".tmp", ".cbz">>

\* outputPath + ".tmp" of Create
TmpOf(outputPath) == outputPath \o <<".tmp">>

InBackupDir(path) == Len(path) > 0 /\ path[1] = BackupDirName

\* ---------------------------------------------------------------- bytes
\* the bytes of the i-th original archive
OrigBytes(i, pages, heavy) ==
    [tag |-> "orig", id |-> i, pages |-> pages, heavy |-> heavy]

\* the bytes of an archive a previous run left in the backup directory
PreBytes(j) == [tag |-> "pre", id |-> j, pages |-> 1, heavy |-> FALSE]

\* the bytes Writer.Create produces from the entries extracted from c
NewBytes(c) == [tag |-> "new", id |-> c.id, pages |-> c.pages, heavy |-> FALSE]

\* a temp file Create has opened and not finished
PartialBytes == [tag |-> "partial", id |-> 0, pages |-> 0, heavy |-> FALSE]

\* info.Size() of a file holding bytes c: a fixed size per content, different
\* for different archives
Size(c) ==
    IF c.tag = "orig" THEN 8 * c.id + (IF c.heavy THEN 4 ELSE 2)
    ELSE IF c.tag = "new" THEN c.id
    ELSE 1

\* ---------------------------------------------------------------- file system
Exists(f, path) == path \in DOMAIN f

\* os.Remove: no effect when the path does not exist
Remove(f, path) == [q \in (DOMAIN f) \ {path} |-> f[q]]

\* os.Create / a finished write: the path now holds bytes c
WriteFile(f, path, c) ==
    [q \in (DOMAIN f) \cup {path} |-> IF q = path THEN c ELSE f[q]]

\* os.Rename when it succeeds: dst is replaced, src is gone
Rename(f, src, dst) ==
    [q \in ((DOMAIN f) \ {src}) \cup {dst} |-> IF q = dst THEN f[src] ELSE f[q]]

\* ---------------------------------------------------------------- state
VARIABLES
    cfg,            \* config.Config: Force, DryRun, Verbose, Workers
    files,          \* the archives under the scanned root: pages, heavy
    cbzFiles,       \* the file list the directory walk collected
    fs,             \* the file system: path -> bytes
    fs0,            \* the file system before the run
    numWorkers,     \* the worker count ProcessDirectory settled on
    pc,             \* thread -> position in the code
    job,            \* thread -> index of the file it is processing
    contents,       \* thread -> bytes read by Extract (ProcessFile's contents)
    i,              \* thread -> loop index (image loop, uniquePathLocked)
    backupPath,     \* thread -> MoveToBackup's backupPath
    err,            \* thread -> ProcessFile's pending err (MoveToBackup, os.Rename)
    ret,            \* thread -> what ProcessFile returned
    touched,        \* thread -> paths its current ProcessFile call changed
    steps,          \* thread -> the commit steps its current call completed
    cb,             \* thread -> the reporter callback it is executing
    mu,             \* backup.Manager.mu: the holder
    smu,            \* SafeReporter.mu: the holder
    jobs,           \* the job channel
    jobsClosed,
    results,        \* the result channel
    resultsClosed,
    sent,           \* the producer goroutine: jobs sent so far
    wg,             \* the WaitGroup counter
    batch,          \* the BatchResult being built
    calls,          \* file index -> number of ProcessFile invocations
    res,            \* processDirectoryParallel's res: the file index, 0 if none
    reported,       \* the files an outcome callback has been issued for
    started,        \* the files OnFileStart has been issued for
    summaries       \* the batch-level callbacks issued so far

\* the state of ImageProcessor.Process on one image
VARIABLES
    processor,      \* ImageProcessor: maxDimension, jpegQuality
    entry,          \* the cbz.ImageEntry passed to Process
    processed       \* what Process returned

\* the state of ProcessFile's entry building, image by image
VARIABLES
    extracted,      \* cbz.Contents: Images, OtherFiles
    entries,        \* the []cbz.WriteEntry built so far
    result,         \* Result: Errors and the image counters
    next,           \* position in the image loop
    archive,        \* the entries Writer.Create wrote
    epc             \* position in the code

\* the state of ProcessDirectory's filepath.Walk
VARIABLES
    dirPath,        \* the root passed to ProcessDirectory
    stack,          \* the paths the walk has still to visit, next first
    wpc             \* position in the code

\* the state of Analyzer.Analyze on one archive
VARIABLES
    analyzer,       \* Analyzer: maxDimension, thresholdMBPage
    analysis        \* what Analyze returned

\* the directory run's variables apart from the collected list
runRestVars ==
    <<cfg, files, fs, fs0, numWorkers, pc, job, contents, i, backupPath,
      err, ret, touched, steps, cb, mu, smu, jobs, jobsClosed, results,
      resultsClosed, sent, wg, batch, calls, res, reported, started,
      summaries>>

pipelineVars == <<cbzFiles, runRestVars>>

walkVars == <<dirPath, stack, wpc>>

imageVars == <<processor, entry, processed>>
entryVars == <<extracted, entries, result, next, archive, epc>>
analysisVars == <<analyzer, analysis>>

\* the variables the directory run leaves alone
otherVars == <<imageVars, entryVars, walkVars, analysisVars>>

vars == <<pipelineVars, otherVars>>

\* ---------------------------------------------------------------- images
\* the lowest quality of Process's adaptive loop and the loop's step
MinQuality == 60
QualityStep == 5

\* encodeJPEG returned an error
EncodeFails == 0 - 1

\* the qualities the model encodes at
Qualities ==
    {q \in MinQuality - QualityStep .. MaxQuality : q % QualityStep = 0}

\* the bytes of an image: what decoding finds in them (decodes, width,
\* height) and the length of their JPEG encoding at each quality
NoData ==
    [tag |-> "none", id |-> 0, len |-> 0, q |-> 0, decodes |-> FALSE,
     width |-> 0, height |-> 0, enc |-> [q \in Qualities |-> EncodeFails]]

RawData(id, len, decodes, width, height, enc) ==
    [tag |-> "raw", id |-> id, len |-> len, q |-> 0, decodes |-> decodes,
     width |-> width, height |-> height, enc |-> enc]

\* Reader.Extract's ImageEntry{Path, OriginalSize: len(data), Data}
ImageEntry(path, data) ==
    [Path |-> path, OriginalSize |-> data.len, Data |-> data]

NoEntry == ImageEntry(<<>>, NoData)

NoProcessed ==
    [called |-> FALSE, err |-> "", NewPath |-> <<>>, Data |-> NoData,
     WasResized |-> FALSE, WasConverted |-> FALSE, OriginalSize |-> 0,
     NewSize |-> 0]

DefaultProcessor == [maxDimension |-> MaxDim, jpegQuality |-> MaxQuality]

ImageIdle ==
    /\ processor = DefaultProcessor
    /\ entry = NoEntry
    /\ processed = NoProcessed

NoContents == [Images |-> <<>>, OtherFiles |-> <<>>]

\* &Result{Errors: make([]error, 0)}
NewResult ==
    [Errors |-> <<>>, ImagesProcessed |-> 0, ImagesSkipped |-> 0,
     PNGsConverted |-> 0]

EntriesIdle ==
    /\ extracted = NoContents
    /\ entries = <<>>
    /\ result = NewResult
    /\ next = 0
    /\ archive = <<>>
    /\ epc = "idle"

WalkIdle ==
    /\ dirPath = <<>>
    /\ stack = <<>>
    /\ wpc = "idle"

\* AnalysisResult before Analyze is called
NoAnalysis ==
    [called |-> FALSE, err |-> "", FileSize |-> 0, PageCount |-> 0,
     MaxWidth |-> 0, MaxHeight |-> 0, MBPerPage |-> [num |-> 0, den |-> 1],
     HasOversized |-> FALSE, HasNonJPEG |-> FALSE, NeedsProcessing |-> FALSE,
     SkipReason |-> <<>>]

AnalysisIdle ==
    /\ analyzer = [maxDimension |-> MaxDim, thresholdMBPage |-> 0]
    /\ analysis = NoAnalysis

Threads == 0 .. MaxWorkers
Workers == 1 .. MaxWorkers

NoBytes == [tag |-> "none", id |-> 0, pages |-> 0, heavy |-> FALSE]
NoRet ==
    [err |-> <<>>, Skipped |-> FALSE, Dry |-> FALSE, done |-> FALSE,
     OriginalSize |-> 0, CompressedSize |-> 0]

FileKinds ==
    {f \in [pages : 0 .. MaxImages, heavy : BOOLEAN] : f.heavy => f.pages > 0}

FileLists == UNION {[1 .. n -> FileKinds] : n \in 0 .. MaxFiles}

\* the bytes of the i-th archive before the run
Original(n) == OrigBytes(n, files[n].pages, files[n].heavy)

\* the names a previous run left in the backup directory: x.cbz, x_1.cbz, ...
PrePath(j) ==
    IF j = 1 THEN BackupPath(CandidatePath(1))
    ELSE SuffixedPath(BackupPath(CandidatePath(1)), j - 1)

InitFs(fl, pre) ==
    LET cand == {CandidatePath(n) : n \in 1 .. Len(fl)}
        old == {PrePath(j) : j \in 1 .. pre}
    IN [q \in cand \cup old |->
          IF q \in old
          THEN PreBytes(CHOOSE j \in 1 .. pre : PrePath(j) = q)
          ELSE LET n == CHOOSE m \in 1 .. Len(fl) : CandidatePath(m) = q
               IN OrigBytes(n, fl[n].pages, fl[n].heavy)]

EmptyBatch ==
    [Results |-> <<>>, TotalFiles |-> 0, ProcessedFiles |-> 0,
     SkippedFiles |-> 0, FailedFiles |-> 0, TotalOriginal |-> 0,
     TotalCompressed |-> 0]

\* the run before ProcessDirectory is called, apart from the configuration,
\* the file list and the file system
InitLocals ==
    /\ fs0 = fs
    /\ numWorkers = 0
    /\ pc = [t \in Threads |-> IF t = 0 THEN "ProcessDirectory" ELSE "idle"]
    /\ job = [t \in Threads |-> 0]
    /\ contents = [t \in Threads |-> NoBytes]
    /\ i = [t \in Threads |-> 0]
    /\ backupPath = [t \in Threads |-> NoPath]
    /\ err = [t \in Threads |-> ""]
    /\ ret = [t \in Threads |-> NoRet]
    /\ touched = [t \in Threads |-> {}]
    /\ steps = [t \in Threads |-> <<>>]
    /\ cb = [t \in Threads |-> ""]
    /\ mu = NoOne
    /\ smu = NoOne
    /\ jobs = <<>>
    /\ jobsClosed = FALSE
    /\ results = <<>>
    /\ resultsClosed = FALSE
    /\ sent = 0
    /\ wg = 0
    /\ batch = EmptyBatch
    /\ calls = [n \in 1 .. Len(files) |-> 0]
    /\ res = 0
    /\ reported = {}
    /\ started = {}
    /\ summaries = 0
    /\ ImageIdle
    /\ EntriesIdle
    /\ WalkIdle
    /\ AnalysisIdle

\* the state NewPipeline and the caller of ProcessDirectory leave, once the
\* configuration, the file list and the file system are chosen
InitRun ==
    /\ cbzFiles = [n \in 1 .. Len(files) |-> CandidatePath(n)]
    /\ InitLocals

Init ==
    /\ cfg \in [Force : BOOLEAN, DryRun : BOOLEAN, Verbose : BOOLEAN,
                Workers : 1 .. MaxWorkers]
    /\ files \in FileLists
    /\ \E pre \in 0 .. MaxPre : fs = InitFs(files, pre)
    /\ InitRun

\* ---------------------------------------------------------------- helpers
poolVars == <<jobs, jobsClosed, results, resultsClosed, sent, wg>>
runVars == <<cfg, files, cbzFiles, fs0, numWorkers, batch, calls, otherVars>>
lockVars == <<mu, smu, cb>>
orderVars == <<started, summaries>>
reportVars == <<res, reported, orderVars>>
mbVars == <<backupPath, err>>

Goto(t, p) == pc' = [pc EXCEPT ![t] = p]

\* ProcessFile returns (nil, err)
ReturnErr(t, e) ==
    /\ pc' = [pc EXCEPT ![t] = "ret"]
    /\ ret' = [ret EXCEPT ![t] = [NoRet EXCEPT !.err = e, !.done = TRUE]]

\* ProcessFile returns (result, nil): result carries the sizes set so far
ReturnResult(t, skipped, dry) ==
    /\ pc' = [pc EXCEPT ![t] = "ret"]
    /\ ret' = [ret EXCEPT ![t] =
                 [@ EXCEPT !.Skipped = skipped, !.Dry = dry, !.done = TRUE]]

Touch(t, S) == touched' = [touched EXCEPT ![t] = @ \cup S]

Step(t, name) == steps' = [steps EXCEPT ![t] = Append(@, name)]

cbzPath(t) == cbzFiles[job[t]]
tempOutput(t) == TempPath(cbzPath(t))

\* Analyzer.shouldProcess on the bytes of an archive
NeedsProcessing(c) == c.heavy

\* zip.OpenReader succeeds only on a complete archive
Readable(c) == c.tag \in {"orig", "pre", "new"}

\* ---------------------------------------------------------------- ProcessFile
\* a ProcessFile that analyzes every file, forced or not
AfterStatAnalyze(force) == "pf_analyze"

\* "if !p.config.Force": analysis unless force mode, else straight to Extract
AfterStat(force) == IF force THEN "pf_extract" ELSE "pf_analyze"

\* os.Stat(cbzPath) and result.OriginalSize = info.Size(), then the force test
Stat(t) ==
    /\ pc[t] = "pf_stat"
    /\ \E ok \in BOOLEAN :
         IF ok /\ Exists(fs, cbzPath(t))
         THEN /\ Goto(t, AfterStat(cfg.Force))
              /\ ret' = [ret EXCEPT ![t].OriginalSize = Size(fs[cbzPath(t)])]
         ELSE ReturnErr(t, <<"failed to stat">>)
    /\ UNCHANGED <<fs, job, contents, i, touched, steps>>
    /\ UNCHANGED <<reportVars, runVars, poolVars, lockVars, mbVars>>

\* a ProcessFile without the skip branch
AfterAnalyzeNoSkip(dry, needs) == IF dry THEN "pf_dryrun" ELSE "pf_extract"

\* where ProcessFile goes with the analysis: the dry-run branch, the skip
\* branch when !analysis.NeedsProcessing, else on to Extract
AfterAnalyze(dry, needs) ==
    IF dry THEN "pf_dryrun" ELSE IF ~needs THEN "pf_skip" ELSE "pf_extract"

\* p.analyzer.Analyze(cbzPath), then the dry-run and skip tests
Analyze(t) ==
    /\ pc[t] = "pf_analyze"
    /\ \E ok \in BOOLEAN :
         IF ok /\ Exists(fs, cbzPath(t)) /\ Readable(fs[cbzPath(t)])
         THEN /\ Goto(t, AfterAnalyze(cfg.DryRun,
                                      NeedsProcessing(fs[cbzPath(t)])))
              /\ contents' = [contents EXCEPT ![t] = fs[cbzPath(t)]]
              /\ UNCHANGED ret
         ELSE /\ ReturnErr(t, <<"analysis failed">>)
              /\ UNCHANGED contents
    /\ UNCHANGED <<fs, job, i, touched, steps>>
    /\ UNCHANGED <<reportVars, runVars, poolVars, lockVars, mbVars>>

\* p.reporter.OnDryRunFile(analysis): the call is made on p.reporter
DryRunReport(t) ==
    /\ pc[t] = "pf_dryrun"
    /\ cb' = [cb EXCEPT ![t] = "OnDryRunFile"]
    /\ reported' = reported \cup {job[t]}
    /\ Goto(t, "pf_dryrun_in")
    /\ UNCHANGED <<fs, job, contents, i, touched, steps, ret, mu, smu>>
    /\ UNCHANGED <<res, orderVars, runVars, poolVars, mbVars>>

DryRunReturn(t) ==
    /\ pc[t] = "pf_dryrun_in"
    /\ cb' = [cb EXCEPT ![t] = ""]
    /\ ReturnResult(t, ~NeedsProcessing(contents[t]), TRUE)
    /\ UNCHANGED <<fs, job, contents, i, touched, steps, mu, smu>>
    /\ UNCHANGED <<reportVars, runVars, poolVars, mbVars>>

\* p.reporter.OnFileSkipped(cbzPath, reason): the call is made on p.reporter
SkipReport(t) ==
    /\ pc[t] = "pf_skip"
    /\ cb' = [cb EXCEPT ![t] = "OnFileSkipped"]
    /\ reported' = reported \cup {job[t]}
    /\ Goto(t, "pf_skip_in")
    /\ UNCHANGED <<fs, job, contents, i, touched, steps, ret, mu, smu>>
    /\ UNCHANGED <<res, orderVars, runVars, poolVars, mbVars>>

SkipReturn(t) ==
    /\ pc[t] = "pf_skip_in"
    /\ cb' = [cb EXCEPT ![t] = ""]
    /\ ReturnResult(t, TRUE, FALSE)
    /\ UNCHANGED <<fs, job, contents, i, touched, steps, mu, smu>>
    /\ UNCHANGED <<reportVars, runVars, poolVars, mbVars>>

\* p.reader.Extract(cbzPath)
Extract(t) ==
    /\ pc[t] = "pf_extract"
    /\ \E ok \in BOOLEAN :
         IF ok /\ Exists(fs, cbzPath(t)) /\ Readable(fs[cbzPath(t)])
         THEN /\ Goto(t, "pf_images")
              /\ contents' = [contents EXCEPT ![t] = fs[cbzPath(t)]]
              /\ i' = [i EXCEPT ![t] = 1]
              /\ UNCHANGED ret
         ELSE /\ ReturnErr(t, <<"failed to open CBZ">>)
              /\ UNCHANGED <<contents, i>>
    /\ UNCHANGED <<fs, job, touched, steps>>
    /\ UNCHANGED <<reportVars, runVars, poolVars, lockVars, mbVars>>

\* one round of the image loop: p.processor.Process(img), and in verbose mode
\* p.reporter.OnImageProcessed on a processed image
ProcessImage(t) ==
    /\ pc[t] = "pf_images"
    /\ IF i[t] > contents[t].pages
       THEN /\ Goto(t, "pf_create")
            /\ UNCHANGED <<i, cb>>
       ELSE \E ok \in BOOLEAN :
              IF ok /\ cfg.Verbose
              THEN /\ cb' = [cb EXCEPT ![t] = "OnImageProcessed"]
                   /\ Goto(t, "pf_images_in")
                   /\ UNCHANGED i
              ELSE /\ i' = [i EXCEPT ![t] = @ + 1]
                   /\ UNCHANGED <<pc, cb>>
    /\ UNCHANGED <<fs, job, contents, touched, steps, ret, mu, smu>>
    /\ UNCHANGED <<reportVars, runVars, poolVars, mbVars>>

ImageReported(t) ==
    /\ pc[t] = "pf_images_in"
    /\ cb' = [cb EXCEPT ![t] = ""]
    /\ i' = [i EXCEPT ![t] = @ + 1]
    /\ Goto(t, "pf_images")
    /\ UNCHANGED <<fs, job, contents, touched, steps, ret, mu, smu>>
    /\ UNCHANGED <<reportVars, runVars, poolVars, mbVars>>

\* Writer.Create up to os.Create(tempPath), tempPath = outputPath + ".tmp"
CreateOpen(t) ==
    /\ pc[t] = "pf_create"
    /\ \E ok \in BOOLEAN :
         IF ok
         THEN /\ fs' = WriteFile(fs, TmpOf(tempOutput(t)), PartialBytes)
              /\ Touch(t, {TmpOf(tempOutput(t))})
              /\ Goto(t, "pf_write")
              /\ UNCHANGED ret
         ELSE /\ ReturnErr(t, <<"failed to create compressed CBZ">>)
              /\ UNCHANGED <<fs, touched>>
    /\ UNCHANGED <<job, contents, i, steps>>
    /\ UNCHANGED <<reportVars, runVars, poolVars, lockVars, mbVars>>

\* a Writer.Create that leaves its temp file behind when it fails
RemoveTempNot(f, tempPath) == f

\* Writer.Create's failure paths: os.Remove(tempPath)
RemoveTemp(f, tempPath) == Remove(f, tempPath)

\* ProcessFile going from the temp archive straight to the backup
AfterCreateTempNoVerify == "mb_lock"

\* where ProcessFile goes once CreateTemp returned the temp archive
AfterCreateTemp == "pf_stat_temp"

\* Writer.Create from the entry loop to the rename of the temp file: a failed
\* write, close or rename removes tempPath
CreateWrite(t) ==
    /\ pc[t] = "pf_write"
    /\ \E ok \in BOOLEAN :
         IF ok /\ Exists(fs, TmpOf(tempOutput(t)))
         THEN /\ fs' = Rename(WriteFile(fs, TmpOf(tempOutput(t)), NewBytes(contents[t])),
                              TmpOf(tempOutput(t)), tempOutput(t))
              /\ Touch(t, {tempOutput(t)})
              /\ Step(t, "write-temp")
              /\ Goto(t, AfterCreateTemp)
              /\ UNCHANGED ret
         ELSE /\ fs' = RemoveTemp(fs, TmpOf(tempOutput(t)))
              /\ ReturnErr(t, <<"failed to create compressed CBZ">>)
              /\ UNCHANGED <<touched, steps>>
    /\ UNCHANGED <<job, contents, i>>
    /\ UNCHANGED <<reportVars, runVars, poolVars, lockVars, mbVars>>

\* os.Stat(tempOutput) and result.CompressedSize = compressedInfo.Size()
StatTemp(t) ==
    /\ pc[t] = "pf_stat_temp"
    /\ \E ok \in BOOLEAN :
         IF ok /\ Exists(fs, tempOutput(t))
         THEN /\ Goto(t, "pf_verify")
              /\ ret' = [ret EXCEPT ![t].CompressedSize = Size(fs[tempOutput(t)])]
              /\ UNCHANGED fs
         ELSE /\ fs' = Remove(fs, tempOutput(t))
              /\ ReturnErr(t, <<"failed to stat compressed file">>)
    /\ UNCHANGED <<job, contents, i, touched, steps>>
    /\ UNCHANGED <<reportVars, runVars, poolVars, lockVars, mbVars>>

\* verifyCompressedCBZ: the temp archive re-extracts and has an image
VerifyOk(f, path) == Exists(f, path) /\ Readable(f[path]) /\ f[path].pages > 0

\* a failed verification that leaves the temp archive behind
VerifyFailedKeep(f, path) == f

\* ProcessFile after a failed verification: os.Remove(tempOutput)
VerifyFailedCleanup(f, path) == Remove(f, path)

\* p.verifyCompressedCBZ(tempOutput)
Verify(t) ==
    /\ pc[t] = "pf_verify"
    /\ \E ok \in BOOLEAN :
         IF ok /\ VerifyOk(fs, tempOutput(t))
         THEN /\ Goto(t, "mb_lock")
              /\ Step(t, "verify-temp")
              /\ UNCHANGED <<fs, ret>>
         ELSE /\ fs' = VerifyFailedCleanup(fs, tempOutput(t))
              /\ ReturnErr(t, <<"verification failed">>)
              /\ UNCHANGED steps
    /\ UNCHANGED <<job, contents, i, touched>>
    /\ UNCHANGED <<reportVars, runVars, poolVars, lockVars, mbVars>>

\* ---------------------------------------------------------------- backup.Manager
\* MoveToBackup without mutual exclusion
MuAcquireRacy(t) == mu' = t

\* m.mu.Lock()
MuAcquire(t) == mu = NoOne /\ mu' = t

\* MoveToBackup: m.mu.Lock() and os.MkdirAll(m.backupDir)
MoveLock(t) ==
    /\ pc[t] = "mb_lock"
    /\ \E ok \in BOOLEAN :
         IF ok
         THEN /\ MuAcquire(t)
              /\ Goto(t, "mb_stat")
              /\ UNCHANGED err
         ELSE /\ mu = NoOne
              /\ Goto(t, "pf_backup_failed")
              /\ err' = [err EXCEPT ![t] = "failed to create backup dir"]
              /\ UNCHANGED mu
    /\ UNCHANGED <<fs, job, contents, i, touched, steps, ret, smu, cb>>
    /\ UNCHANGED <<reportVars, runVars, poolVars, backupPath>>

\* a loop that starts at the suffix _2
FirstSuffixTwo == 1 + 1

\* uniquePathLocked's first suffix: for i := 1; ; i++
FirstSuffix == 1

\* MoveToBackup: backupPath := Join(backupDir, Base(originalPath)); os.Stat(backupPath)
MoveStat(t) ==
    /\ pc[t] = "mb_stat"
    /\ IF Exists(fs, BackupPath(cbzPath(t)))
       THEN /\ Goto(t, "mb_unique")
            /\ i' = [i EXCEPT ![t] = FirstSuffix]
            /\ UNCHANGED backupPath
       ELSE /\ Goto(t, "mb_rename")
            /\ backupPath' = [backupPath EXCEPT ![t] = BackupPath(cbzPath(t))]
            /\ UNCHANGED i
    /\ UNCHANGED <<fs, job, contents, touched, steps, ret, err>>
    /\ UNCHANGED <<reportVars, runVars, poolVars, lockVars>>

\* one round of uniquePathLocked's loop
UniquePathLocked(t) ==
    /\ pc[t] = "mb_unique"
    /\ LET newPath == SuffixedPath(BackupPath(cbzPath(t)), i[t])
       IN IF ~Exists(fs, newPath)
          THEN /\ Goto(t, "mb_rename")
               /\ backupPath' = [backupPath EXCEPT ![t] = newPath]
               /\ UNCHANGED i
          ELSE /\ i' = [i EXCEPT ![t] = @ + 1]
               /\ UNCHANGED <<pc, backupPath>>
    /\ UNCHANGED <<fs, job, contents, touched, steps, ret, err>>
    /\ UNCHANGED <<reportVars, runVars, poolVars, lockVars>>

\* MoveToBackup: os.Rename(originalPath, backupPath), then the deferred Unlock
MoveRename(t) ==
    /\ pc[t] = "mb_rename"
    /\ \E ok \in BOOLEAN :
         IF ok /\ Exists(fs, cbzPath(t))
         THEN /\ fs' = Rename(fs, cbzPath(t), backupPath[t])
              /\ Touch(t, {cbzPath(t), backupPath[t]})
              /\ Step(t, "move-original-to-backup")
              /\ Goto(t, "pf_rename")
              /\ UNCHANGED err
         ELSE /\ Goto(t, "pf_backup_failed")
              /\ err' = [err EXCEPT ![t] = "failed to move to backup"]
              /\ UNCHANGED <<fs, touched, steps>>
    /\ mu' = NoOne
    /\ UNCHANGED <<job, contents, i, ret, smu, cb>>
    /\ UNCHANGED <<reportVars, runVars, poolVars, backupPath>>

\* a failed backup that leaves the temp archive behind
BackupFailedKeep(f, path) == f

\* the cleanup after a failed MoveToBackup: os.Remove(tempOutput)
BackupFailedCleanup(f, path) == Remove(f, path)

\* ProcessFile after a failed MoveToBackup: os.Remove(tempOutput)
BackupFailed(t) ==
    /\ pc[t] = "pf_backup_failed"
    /\ fs' = BackupFailedCleanup(fs, tempOutput(t))
    /\ ReturnErr(t, <<"backup failed", err[t]>>)
    /\ UNCHANGED <<job, contents, i, touched, steps>>
    /\ UNCHANGED <<reportVars, runVars, poolVars, lockVars, mbVars>>

\* ProcessFile: os.Rename(tempOutput, cbzPath)
RenameTemp(t) ==
    /\ pc[t] = "pf_rename"
    /\ \E ok \in BOOLEAN :
         IF ok /\ Exists(fs, tempOutput(t))
         THEN /\ fs' = Rename(fs, tempOutput(t), cbzPath(t))
              /\ Touch(t, {tempOutput(t), cbzPath(t)})
              /\ Step(t, "rename-temp-to-original")
              /\ ReturnResult(t, FALSE, FALSE)
              /\ UNCHANGED err
         ELSE /\ err' = [err EXCEPT ![t] = "rename error"]
              /\ Goto(t, "rs_stat")
              /\ UNCHANGED <<fs, touched, steps, ret>>
    /\ UNCHANGED <<job, contents, i, backupPath>>
    /\ UNCHANGED <<reportVars, runVars, poolVars, lockVars>>

\* the path RestoreFromBackup reads: Join(backupDir, Base(originalPath))
RestorePath(originalPath) == BackupPath(originalPath)

\* a critical error that drops the restore error
CriticalErrRenameOnly(renameErr, restoreErr) == <<"CRITICAL", renameErr>>

\* ProcessFile's "CRITICAL: rename failed and restore failed: %w (restore: %v)"
CriticalErr(renameErr, restoreErr) == <<"CRITICAL", renameErr, restoreErr>>

\* RestoreFromBackup: os.Stat(backupPath)
RestoreStat(t) ==
    /\ pc[t] = "rs_stat"
    /\ IF Exists(fs, RestorePath(cbzPath(t)))
       THEN /\ Goto(t, "rs_rename")
            /\ UNCHANGED ret
       ELSE ReturnErr(t, CriticalErr(err[t], "backup file not found"))
    /\ UNCHANGED <<fs, job, contents, i, touched, steps>>
    /\ UNCHANGED <<reportVars, runVars, poolVars, lockVars, mbVars>>

\* RestoreFromBackup: os.Rename(backupPath, originalPath)
RestoreRename(t) ==
    /\ pc[t] = "rs_rename"
    /\ \E ok \in BOOLEAN :
         IF ok /\ Exists(fs, RestorePath(cbzPath(t)))
         THEN /\ fs' = Rename(fs, RestorePath(cbzPath(t)), cbzPath(t))
              /\ Touch(t, {RestorePath(cbzPath(t)), cbzPath(t)})
              /\ Goto(t, "pf_restored")
              /\ UNCHANGED ret
         ELSE /\ ReturnErr(t, CriticalErr(err[t], "restore rename error"))
              /\ UNCHANGED <<fs, touched>>
    /\ UNCHANGED <<job, contents, i, steps>>
    /\ UNCHANGED <<reportVars, runVars, poolVars, lockVars, mbVars>>

\* ProcessFile after a successful restore: os.Remove(tempOutput)
Restored(t) ==
    /\ pc[t] = "pf_restored"
    /\ fs' = Remove(fs, tempOutput(t))
    /\ ReturnErr(t, <<"rename failed (original restored)", err[t]>>)
    /\ UNCHANGED <<job, contents, i, touched, steps>>
    /\ UNCHANGED <<reportVars, runVars, poolVars, lockVars, mbVars>>

ProcessFile(t) ==
    \/ Stat(t) \/ Analyze(t) \/ DryRunReport(t) \/ DryRunReturn(t)
    \/ SkipReport(t) \/ SkipReturn(t) \/ Extract(t) \/ ProcessImage(t)
    \/ ImageReported(t) \/ CreateOpen(t) \/ CreateWrite(t) \/ StatTemp(t)
    \/ Verify(t) \/ MoveLock(t) \/ MoveStat(t) \/ UniquePathLocked(t)
    \/ MoveRename(t) \/ BackupFailed(t) \/ RenameTemp(t) \/ RestoreStat(t)
    \/ RestoreRename(t) \/ Restored(t)

\* ---------------------------------------------------------------- directory run
pfVars == <<contents, i, backupPath, err, touched, steps>>

Min(a, b) == IF a < b THEN a ELSE b
Max(a, b) == IF a > b THEN a ELSE b

\* a worker count that is not capped by the number of files
WorkerCountUncapped(workers, totalFiles) == Max(workers, 1)

\* ProcessDirectory's worker count: min(config.Workers, totalFiles), at least 1
WorkerCount(workers, totalFiles) == Max(Min(workers, totalFiles), 1)

\* the Result a failed file gets: Result{SourcePath, Errors: []error{err}}
FailedResult(n, e) ==
    [SourcePath |-> cbzFiles[n], err |-> e, Skipped |-> FALSE, Dry |-> FALSE,
     OriginalSize |-> 0, CompressedSize |-> 0]

\* *result of a ProcessFile call that returned no error
FileResult(n, r) ==
    [SourcePath |-> cbzFiles[n], err |-> <<>>, Skipped |-> r.Skipped, Dry |-> r.Dry,
     OriginalSize |-> r.OriginalSize, CompressedSize |-> r.CompressedSize]

\* a total that keeps only the size of the file counted last
AddTotalLast(total, size) == size

\* batch.TotalOriginal += result.OriginalSize (and the same for TotalCompressed)
AddTotal(total, size) == total + size

\* the collection step both paths share: count the file, append its Result
Collect(b, n, r) ==
    IF r.err # <<>>
    THEN [b EXCEPT !.FailedFiles = @ + 1,
                   !.Results = Append(@, FailedResult(n, r.err))]
    ELSE IF r.Skipped
    THEN [b EXCEPT !.SkippedFiles = @ + 1,
                   !.Results = Append(@, FileResult(n, r))]
    ELSE [b EXCEPT !.ProcessedFiles = @ + 1,
                   !.TotalOriginal = AddTotal(@, r.OriginalSize),
                   !.TotalCompressed = AddTotal(@, r.CompressedSize),
                   !.Results = Append(@, FileResult(n, r))]

\* ProcessFile's locals go out of scope once its caller has used the result
ClearLocals(t) ==
    /\ ret' = [ret EXCEPT ![t] = NoRet]
    /\ touched' = [touched EXCEPT ![t] = {}]
    /\ steps' = [steps EXCEPT ![t] = <<>>]
    /\ contents' = [contents EXCEPT ![t] = NoBytes]
    /\ i' = [i EXCEPT ![t] = 0]
    /\ backupPath' = [backupPath EXCEPT ![t] = NoPath]
    /\ err' = [err EXCEPT ![t] = ""]

\* entry of ProcessFile(cbzFiles[n]) on thread t
CallProcessFile(t, n) ==
    /\ calls' = [calls EXCEPT ![n] = @ + 1]
    /\ Goto(t, "pf_stat")

\* ProcessDirectory after the walk: the empty list, the worker count, and the
\* choice of path; the parallel path starts its workers and helper goroutines
ProcessDirectory ==
    /\ pc[0] = "ProcessDirectory"
    /\ LET totalFiles == Len(cbzFiles)
           workers == WorkerCount(cfg.Workers, totalFiles)
       IN IF totalFiles = 0
          THEN /\ Goto(0, "done")
               /\ UNCHANGED <<numWorkers, wg, batch>>
          ELSE /\ numWorkers' = workers
               /\ batch' = [EmptyBatch EXCEPT !.TotalFiles = totalFiles]
               /\ IF workers = 1
                  THEN /\ Goto(0, "seq_loop")
                       /\ UNCHANGED wg
                  ELSE /\ pc' = [t \in Threads |->
                                   IF t = 0 THEN "collect"
                                   ELSE IF t <= workers THEN "w_recv" ELSE pc[t]]
                       /\ wg' = workers
    /\ UNCHANGED <<cfg, files, cbzFiles, calls, fs, fs0, job, ret, lockVars, otherVars, reportVars>>
    /\ UNCHANGED <<jobs, jobsClosed, results, resultsClosed, sent, pfVars>>

\* processDirectorySequential: the loop head and p.reporter.OnFileStart
SeqFileStart ==
    /\ pc[0] = "seq_loop"
    /\ IF job[0] < Len(cbzFiles)
       THEN /\ job' = [job EXCEPT ![0] = @ + 1]
            /\ cb' = [cb EXCEPT ![0] = "OnFileStart"]
            /\ started' = started \cup {job[0] + 1}
            /\ Goto(0, "seq_start_in")
       ELSE /\ Goto(0, "summary")
            /\ UNCHANGED <<job, cb, started>>
    /\ UNCHANGED <<fs, ret, mu, smu, runVars, poolVars, pfVars>>
    /\ UNCHANGED <<res, reported, summaries>>

SeqCall ==
    /\ pc[0] = "seq_start_in"
    /\ cb' = [cb EXCEPT ![0] = ""]
    /\ CallProcessFile(0, job[0])
    /\ UNCHANGED <<fs, job, ret, mu, smu, poolVars, pfVars>>
    /\ UNCHANGED <<cfg, files, cbzFiles, fs0, numWorkers, batch, otherVars, reportVars>>

\* a sequential loop that stops at the first failed file
SeqAfterErrorBreak == "summary"

\* the "continue" of processDirectorySequential's error branch
SeqAfterError == "seq_loop"

\* processDirectorySequential after ProcessFile returns: count the file and,
\* when there was no error, p.reporter.OnFileComplete
SeqCollect ==
    /\ pc[0] = "ret"
    /\ batch' = Collect(batch, job[0], ret[0])
    /\ IF ret[0].err # <<>>
       THEN /\ Goto(0, SeqAfterError)
            /\ UNCHANGED <<cb, reported>>
       ELSE /\ cb' = [cb EXCEPT ![0] = "OnFileComplete"]
            /\ reported' = reported \cup {job[0]}
            /\ Goto(0, "seq_complete_in")
    /\ ClearLocals(0)
    /\ UNCHANGED <<fs, job, mu, smu, poolVars, res, orderVars>>
    /\ UNCHANGED <<cfg, files, cbzFiles, fs0, numWorkers, calls, otherVars>>

SeqCompleteReturn ==
    /\ pc[0] = "seq_complete_in"
    /\ cb' = [cb EXCEPT ![0] = ""]
    /\ Goto(0, "seq_loop")
    /\ UNCHANGED <<fs, job, ret, mu, smu, runVars, poolVars, pfVars, reportVars>>

\* the batch-level callback: p.reporter.OnDryRunComplete or OnBatchComplete
Summary ==
    /\ pc[0] = "summary"
    /\ cb' = [cb EXCEPT ![0] =
                IF cfg.DryRun THEN "OnDryRunComplete" ELSE "OnBatchComplete"]
    /\ summaries' = summaries + 1
    /\ Goto(0, "summary_in")
    /\ UNCHANGED <<fs, job, ret, mu, smu, runVars, poolVars, pfVars>>
    /\ UNCHANGED <<res, reported, started>>

SummaryReturn ==
    /\ pc[0] = "summary_in"
    /\ cb' = [cb EXCEPT ![0] = ""]
    /\ Goto(0, "done")
    /\ UNCHANGED <<fs, job, ret, mu, smu, runVars, poolVars, pfVars, reportVars>>

\* ---------------------------------------------------------------- worker pool
\* s.mu.Lock() of a SafeReporter method
SmuAcquire(t) == smu = NoOne /\ smu' = t

\* the producer goroutine: jobs <- FileJob{...}
ProducerSend ==
    /\ numWorkers > 1
    /\ sent < Len(cbzFiles)
    /\ Len(jobs) < numWorkers
    /\ jobs' = Append(jobs, sent + 1)
    /\ sent' = sent + 1
    /\ UNCHANGED <<fs, pc, job, ret, lockVars, runVars, pfVars, reportVars>>
    /\ UNCHANGED <<jobsClosed, results, resultsClosed, wg>>

\* a producer that never closes the job channel
AllJobsSentNever(s, n) == FALSE

\* the producer's loop over cbzFiles has ended
AllJobsSent(s, n) == s = n

\* the producer goroutine: close(jobs)
ProducerClose ==
    /\ numWorkers > 1
    /\ AllJobsSent(sent, Len(cbzFiles))
    /\ ~jobsClosed
    /\ jobsClosed' = TRUE
    /\ UNCHANGED <<fs, pc, job, ret, lockVars, runVars, pfVars, reportVars>>
    /\ UNCHANGED <<jobs, results, resultsClosed, sent, wg>>

\* a closer that does not wait for the workers
WgWaitNone(counter) == TRUE

\* wg.Wait() returns
WgWait(counter) == counter = 0

\* the closer goroutine: wg.Wait(); close(results)
CloseResults ==
    /\ numWorkers > 1
    /\ WgWait(wg)
    /\ ~resultsClosed
    /\ resultsClosed' = TRUE
    /\ UNCHANGED <<fs, pc, job, ret, lockVars, runVars, pfVars, reportVars>>
    /\ UNCHANGED <<jobs, jobsClosed, results, sent, wg>>

\* worker: for job := range jobs, and the deferred wg.Done() when it ends
WorkerReceive(t) ==
    /\ pc[t] = "w_recv"
    /\ IF jobs # <<>>
       THEN /\ job' = [job EXCEPT ![t] = Head(jobs)]
            /\ jobs' = Tail(jobs)
            /\ Goto(t, "w_start")
            /\ UNCHANGED wg
       ELSE /\ jobsClosed
            /\ Goto(t, "w_exit")
            /\ wg' = wg - 1
            /\ UNCHANGED <<job, jobs>>
    /\ UNCHANGED <<fs, ret, lockVars, runVars, pfVars, reportVars>>
    /\ UNCHANGED <<jobsClosed, results, resultsClosed, sent>>

\* worker: reporter.OnFileStart through the SafeReporter
WorkerFileStart(t) ==
    /\ pc[t] = "w_start"
    /\ SmuAcquire(t)
    /\ cb' = [cb EXCEPT ![t] = "OnFileStart"]
    /\ started' = started \cup {job[t]}
    /\ Goto(t, "w_start_in")
    /\ UNCHANGED <<fs, job, ret, mu, runVars, poolVars, pfVars>>
    /\ UNCHANGED <<res, reported, summaries>>

WorkerCall(t) ==
    /\ pc[t] = "w_start_in"
    /\ cb' = [cb EXCEPT ![t] = ""]
    /\ smu' = NoOne
    /\ CallProcessFile(t, job[t])
    /\ UNCHANGED <<fs, job, ret, mu, poolVars, pfVars>>
    /\ UNCHANGED <<cfg, files, cbzFiles, fs0, numWorkers, batch, otherVars, reportVars>>

\* worker: results <- FileResult{Job, Result, Error}
WorkerSend(t) ==
    /\ t \in Workers
    /\ pc[t] = "ret"
    /\ Len(results) < numWorkers
    /\ results' = Append(results, [Job |-> job[t], Result |-> ret[t]])
    /\ Goto(t, "w_recv")
    /\ job' = [job EXCEPT ![t] = 0]
    /\ ClearLocals(t)
    /\ UNCHANGED <<fs, lockVars, runVars, reportVars>>
    /\ UNCHANGED <<jobs, jobsClosed, resultsClosed, sent, wg>>

\* a collecting loop that ends as soon as the result channel is empty
RangeEndsWhenEmpty(closed) == TRUE

\* for res := range results ends once the channel is closed and drained
RangeEnds(closed) == closed

\* processDirectoryParallel: for res := range results, counting the file
ParCollect ==
    /\ pc[0] = "collect"
    /\ IF results # <<>>
       THEN /\ batch' = Collect(batch, Head(results).Job, Head(results).Result)
            /\ results' = Tail(results)
            /\ IF Head(results).Result.err # <<>>
               THEN /\ Goto(0, "collect")
                    /\ UNCHANGED res
               ELSE /\ Goto(0, "par_complete")
                    /\ res' = Head(results).Job
       ELSE /\ RangeEnds(resultsClosed)
            /\ Goto(0, "summary")
            /\ UNCHANGED <<batch, results, res>>
    /\ UNCHANGED <<fs, job, ret, lockVars, pfVars, reported, orderVars>>
    /\ UNCHANGED <<cfg, files, cbzFiles, fs0, numWorkers, calls, otherVars>>
    /\ UNCHANGED <<jobs, jobsClosed, resultsClosed, sent, wg>>

\* processDirectoryParallel: safeReporter.OnFileComplete(*res.Result)
ParFileComplete ==
    /\ pc[0] = "par_complete"
    /\ SmuAcquire(0)
    /\ cb' = [cb EXCEPT ![0] = "OnFileComplete"]
    /\ reported' = reported \cup {res}
    /\ Goto(0, "par_complete_in")
    /\ UNCHANGED <<fs, job, ret, mu, runVars, poolVars, pfVars, res, orderVars>>

ParCompleteReturn ==
    /\ pc[0] = "par_complete_in"
    /\ cb' = [cb EXCEPT ![0] = ""]
    /\ smu' = NoOne
    /\ res' = 0
    /\ Goto(0, "collect")
    /\ UNCHANGED <<fs, job, ret, mu, runVars, poolVars, pfVars, reported>>
    /\ UNCHANGED orderVars

Next ==
    \/ ProcessDirectory
    \/ SeqFileStart \/ SeqCall \/ SeqCollect \/ SeqCompleteReturn
    \/ Summary \/ SummaryReturn
    \/ ProducerSend \/ ProducerClose \/ CloseResults
    \/ ParCollect \/ ParFileComplete \/ ParCompleteReturn
    \/ \E t \in Workers :
         WorkerReceive(t) \/ WorkerFileStart(t) \/ WorkerCall(t) \/ WorkerSend(t)
    \/ \E t \in Threads : ProcessFile(t)

Spec == Init /\ [][Next]_vars

\* the longest file list of a parallel run
MaxParFiles == 3

\* the file lists of the parallel runs: two archives of any kind, or up to
\* MaxParFiles archives without images, so that the producer and the workers
\* meet full channels
ParFileLists ==
    {fl \in FileLists : Len(fl) = 2}
        \cup UNION {[1 .. n -> {f \in FileKinds : f.pages = 0}] :
                      n \in 3 .. MaxParFiles}

\* the parallel path alone: a verbose run over more than one file with more
\* than one configured worker, so that ProcessDirectory calls
\* processDirectoryParallel, and a backup directory an earlier run has used
ParInit ==
    /\ cfg \in [Force : BOOLEAN, DryRun : BOOLEAN, Verbose : {TRUE},
                Workers : 2 .. MaxWorkers]
    /\ files \in ParFileLists
    /\ fs = InitFs(files, MaxPre)
    /\ InitRun

ParNext ==
    \/ ProcessDirectory
    \/ Summary \/ SummaryReturn
    \/ ProducerSend \/ ProducerClose \/ CloseResults
    \/ ParCollect \/ ParFileComplete \/ ParCompleteReturn
    \/ \E t \in Workers :
         WorkerReceive(t) \/ WorkerFileStart(t) \/ WorkerCall(t) \/ WorkerSend(t)
    \/ \E t \in Workers : ProcessFile(t)

\* the Go scheduler runs a goroutine whenever one is runnable
ParSpec == ParInit /\ [][ParNext]_vars /\ WF_vars(ParNext)

\* ---------------------------------------------------------------- a leftover temp archive
\* the list the walk collects in a directory where a run that was killed left
\* the temp archive of x.cbz: x.cbz and x.cbz.compressed.tmp.cbz, both with
\* the extension .cbz
LeftoverFiles == <<CandidatePath(1), TempPath(CandidatePath(1))>>

LeftoverFs(fl, pre) ==
    [q \in {LeftoverFiles[n] : n \in 1 .. 2} \cup {PrePath(j) : j \in 1 .. pre} |->
        IF \E j \in 1 .. pre : PrePath(j) = q
        THEN PreBytes(CHOOSE j \in 1 .. pre : PrePath(j) = q)
        ELSE LET n == CHOOSE m \in 1 .. 2 : LeftoverFiles[m] = q
             IN OrigBytes(n, fl[n].pages, fl[n].heavy)]

\* a sequential run over that directory
LeftoverInit ==
    /\ cfg \in [Force : BOOLEAN, DryRun : BOOLEAN, Verbose : BOOLEAN,
                Workers : {1}]
    /\ files \in [1 .. 2 -> FileKinds]
    /\ cbzFiles = LeftoverFiles
    /\ \E pre \in 0 .. MaxPre : fs = LeftoverFs(files, pre)
    /\ InitLocals

SeqNext ==
    \/ ProcessDirectory
    \/ SeqFileStart \/ SeqCall \/ SeqCollect \/ SeqCompleteReturn
    \/ Summary \/ SummaryReturn
    \/ ProcessFile(0)

LeftoverSpec == LeftoverInit /\ [][SeqNext]_vars

\* ---------------------------------------------------------------- a second run
\* the number of runs of the pipeline over one directory
MaxRuns == 2

\* what ProcessDirectory's walk collects from a file system: the .cbz files
\* outside the backup directory
Collected(f) == {q \in DOMAIN f : ~InBackupDir(q) /\ Ext(q) = ".cbz"}

\* the program is started again on the directory as the last run left it: a
\* new Pipeline, and a walk that collects the same files as before
Rerun ==
    /\ pc[0] = "done"
    /\ \A n \in DOMAIN calls : calls[n] < MaxRuns
    /\ Collected(fs) = {cbzFiles[n] : n \in DOMAIN cbzFiles}
    /\ fs0' = fs
    /\ numWorkers' = 0
    /\ pc' = [t \in Threads |-> IF t = 0 THEN "ProcessDirectory" ELSE "idle"]
    /\ job' = [t \in Threads |-> 0]
    /\ ret' = [t \in Threads |-> NoRet]
    /\ jobs' = <<>>
    /\ jobsClosed' = FALSE
    /\ results' = <<>>
    /\ resultsClosed' = FALSE
    /\ sent' = 0
    /\ wg' = 0
    /\ batch' = EmptyBatch
    /\ res' = 0
    /\ reported' = {}
    /\ started' = {}
    /\ summaries' = 0
    /\ UNCHANGED <<cfg, files, cbzFiles, fs, calls, lockVars, pfVars, otherVars>>

RerunInit == Init /\ ~cfg.Force

RerunNext == Next \/ Rerun

RerunSpec == RerunInit /\ [][RerunNext]_vars

\* ---------------------------------------------------------------- ImageProcessor.Process
\* strings.ToLower on an extension
ToLower(ext) ==
    CASE ext = ".JPG" -> ".jpg"
      [] ext = ".PNG" -> ".png"
      [] ext = ".CBZ" -> ".cbz"
      [] OTHER -> ext

\* strings.TrimSuffix(path, suffix): case-sensitive
TrimSuffix(path, suffix) ==
    IF path # <<>> /\ path[Len(path)] = suffix
    THEN SubSeq(path, 1, Len(path) - 1)
    ELSE path

\* p.encodeJPEG(img, quality): the length of the encoding, or EncodeFails
encodeJPEG(data, quality) == data.enc[quality]

\* the bytes encodeJPEG returns for the (resized) image at a quality
Encoded(data, quality, width, height) ==
    [data EXCEPT !.tag = "jpeg", !.q = quality, !.len = data.enc[quality],
                 !.decodes = TRUE, !.width = width, !.height = height]

\* an adaptive loop without the early break
SmallEnoughNever(attemptSize, originalSize) == FALSE

\* the adaptive loop's break: "if attemptSize < entry.OriginalSize"
SmallEnough(attemptSize, originalSize) == attemptSize < originalSize

\* the adaptive loop: the quality whose encoding newData holds when the loop
\* ends, cur being the quality of the current newData
RECURSIVE Adaptive(_, _, _, _)
Adaptive(data, originalSize, quality, cur) ==
    IF quality < MinQuality THEN cur
    ELSE IF encodeJPEG(data, quality) = EncodeFails THEN cur
    ELSE IF SmallEnough(encodeJPEG(data, quality), originalSize) THEN quality
    ELSE Adaptive(data, originalSize, quality - QualityStep, quality)

\* the adaptive loop: the qualities it calls encodeJPEG with, in order
RECURSIVE AdaptiveCalls(_, _, _)
AdaptiveCalls(data, originalSize, quality) ==
    IF quality < MinQuality THEN <<>>
    ELSE IF encodeJPEG(data, quality) = EncodeFails THEN <<quality>>
    ELSE IF SmallEnough(encodeJPEG(data, quality), originalSize)
    THEN <<quality>>
    ELSE <<quality>> \o AdaptiveCalls(data, originalSize, quality - QualityStep)

\* the encodeJPEG calls Process makes after the first one
RetryCalls(p, e) ==
    IF encodeJPEG(e.Data, p.jpegQuality) > e.OriginalSize
    THEN AdaptiveCalls(e.Data, e.OriginalSize, p.jpegQuality - QualityStep)
    ELSE <<>>

\* a final check that keeps the original only when the encoding is larger
KeepOriginalStrict(newSize, originalSize, isAlreadyJPEG, wasResized) ==
    newSize > originalSize /\ isAlreadyJPEG /\ ~wasResized

\* a Process without the final check
KeepOriginalNever(newSize, originalSize, isAlreadyJPEG, wasResized) == FALSE

\* the final check: still not smaller, already a JPEG, not resized
KeepOriginal(newSize, originalSize, isAlreadyJPEG, wasResized) ==
    newSize >= originalSize /\ isAlreadyJPEG /\ ~wasResized

ProcessError(e) == [NoProcessed EXCEPT !.called = TRUE, !.err = e]

\* the quality of the encoding newData holds when Process reaches its final
\* check: the configured one, or what the adaptive loop ended with
CandidateQuality(p, e) ==
    IF encodeJPEG(e.Data, p.jpegQuality) > e.OriginalSize
    THEN Adaptive(e.Data, e.OriginalSize, p.jpegQuality - QualityStep,
                  p.jpegQuality)
    ELSE p.jpegQuality

\* ImageProcessor.Process(entry)
Process(p, e) ==
    LET data == e.Data
        ext == ToLower(Ext(e.Path))
        isAlreadyJPEG == ext = ".jpg" \/ ext = ".jpeg"
        wasResized == data.width > p.maxDimension \/ data.height > p.maxDimension
        width == IF wasResized THEN Min(data.width, p.maxDimension) ELSE data.width
        height == IF wasResized THEN Min(data.height, p.maxDimension) ELSE data.height
        first == encodeJPEG(data, p.jpegQuality)
        quality == CandidateQuality(p, e)
        newSize == encodeJPEG(data, quality)
    IN IF ~data.decodes THEN ProcessError("failed to decode")
       ELSE IF first = EncodeFails THEN ProcessError("failed to encode")
       ELSE IF KeepOriginal(newSize, e.OriginalSize, isAlreadyJPEG, wasResized)
       THEN [called |-> TRUE, err |-> "", NewPath |-> e.Path, Data |-> e.Data,
             WasResized |-> wasResized, WasConverted |-> FALSE,
             OriginalSize |-> e.OriginalSize, NewSize |-> e.OriginalSize]
       ELSE [called |-> TRUE, err |-> "",
             NewPath |-> IF isAlreadyJPEG THEN e.Path
                         ELSE TrimSuffix(e.Path, ext) \o <<".jpg">>,
             Data |-> Encoded(data, quality, width, height),
             WasResized |-> wasResized, WasConverted |-> ~isAlreadyJPEG,
             OriginalSize |-> e.OriginalSize, NewSize |-> newSize]

ImageExts == {".jpg", ".JPG", ".jpeg", ".png", ".PNG"}

\* the images Process is applied to
ImageEntries ==
    {ImageEntry(<<"page", ext>>, RawData(1, len, decodes, width, height, enc)) :
        ext \in ImageExts, len \in 1 .. MaxSize, decodes \in BOOLEAN,
        width \in 1 .. MaxDim, height \in 1 .. MaxDim,
        enc \in [Qualities -> (1 .. MaxSize) \cup {EncodeFails}]}

\* the directory run before anything started, apart from cfg and cbzFiles
RunIdleButFs ==
    /\ files = <<>>
    /\ numWorkers = 0
    /\ pc = [t \in Threads |-> "idle"]
    /\ job = [t \in Threads |-> 0]
    /\ contents = [t \in Threads |-> NoBytes]
    /\ i = [t \in Threads |-> 0]
    /\ backupPath = [t \in Threads |-> NoPath]
    /\ err = [t \in Threads |-> ""]
    /\ ret = [t \in Threads |-> NoRet]
    /\ touched = [t \in Threads |-> {}]
    /\ steps = [t \in Threads |-> <<>>]
    /\ cb = [t \in Threads |-> ""]
    /\ mu = NoOne
    /\ smu = NoOne
    /\ jobs = <<>>
    /\ jobsClosed = FALSE
    /\ results = <<>>
    /\ resultsClosed = FALSE
    /\ sent = 0
    /\ wg = 0
    /\ batch = EmptyBatch
    /\ calls = <<>>
    /\ res = 0
    /\ reported = {}
    /\ started = {}
    /\ summaries = 0

RunIdle ==
    /\ fs = <<>>
    /\ fs0 = <<>>
    /\ RunIdleButFs

PipelineIdle ==
    /\ cfg = [Force |-> FALSE, DryRun |-> FALSE, Verbose |-> FALSE, Workers |-> 1]
    /\ cbzFiles = <<>>
    /\ RunIdle

\* NewImageProcessor(maxDim, quality) and an image to process
ProcessInit ==
    /\ PipelineIdle
    /\ EntriesIdle
    /\ WalkIdle
    /\ AnalysisIdle
    /\ processor \in [maxDimension : 1 .. MaxDim, jpegQuality : Qualities]
    /\ entry \in ImageEntries
    /\ processed = NoProcessed

CallProcess ==
    /\ ~processed.called
    /\ processed' = Process(processor, entry)
    /\ UNCHANGED <<processor, entry, entryVars, walkVars, analysisVars, pipelineVars>>

ProcessNext == CallProcess

ProcessSpec == ProcessInit /\ [][ProcessNext]_vars

\* ---------------------------------------------------------------- ProcessFile's entries
\* the k-th image of an archive: a JPEG or a PNG that decodes or not and
\* whose encoding fails, is smaller or is larger than the original
PageImages(k) ==
    {ImageEntry(<<"p" \o ToString(k), ext>>,
                RawData(k, 2, decodes, 1, 1, [q \in Qualities |-> size])) :
        ext \in {".jpg", ".png"}, decodes \in BOOLEAN,
        size \in {EncodeFails, 1, 3}}

\* the j-th non-image file of an archive, e.g. ComicInfo.xml
OtherFile(j) ==
    [Path |-> <<"ComicInfo" \o ToString(j), ".xml">>,
     Data |-> RawData(MaxEntries + j, 1, FALSE, 0, 0,
                      [q \in Qualities |-> EncodeFails])]

\* the image under the name of the first page and its own extension, as in
\* an archive that holds p1.jpg and p1.png
SameStem(img) == [img EXCEPT !.Path = <<"p1", Ext(img.Path)>>]

\* the k-th image of an archive, under its own name or the first page's
PageEntries(k) == PageImages(k) \cup {SameStem(img) : img \in PageImages(k)}

\* the Contents Reader.Extract can return
ContentsSet ==
    {[Images |-> imgs, OtherFiles |-> [j \in 1 .. m |-> OtherFile(j)]] :
        imgs \in UNION {{im \in [1 .. n -> UNION {PageEntries(k) : k \in 1 .. n}] :
                            \A k \in 1 .. n : im[k] \in PageEntries(k)} :
                         n \in 0 .. MaxEntries},
        m \in 0 .. MaxOthers}

\* an entry for a failed image that loses the image's bytes
KeepOnErrorNoData(img) == [Path |-> img.Path, Data |-> NoData]

\* "Keep original on error": WriteEntry{Path: img.Path, Data: img.Data}
KeepOnError(img) == [Path |-> img.Path, Data |-> img.Data]

\* an entry for a non-image file that loses the file's bytes
OtherEntryNoData(other) == [Path |-> other.Path, Data |-> NoData]

\* WriteEntry{Path: other.Path, Data: other.Data}
OtherEntry(other) == [Path |-> other.Path, Data |-> other.Data]

\* the archive Writer.Create writes: one file per entry, in order
WrittenEntries(es) ==
    [k \in 1 .. Len(es) |-> [Name |-> es[k].Path, Data |-> es[k].Data]]

\* a count that takes only resized images as processed
CountsAsProcessedResized(r) == r.WasResized

\* "if processed.WasResized || processed.WasConverted": ImagesProcessed++,
\* else ImagesSkipped++
CountsAsProcessed(r) == r.WasResized \/ r.WasConverted

\* ProcessFile after Extract returned contents
EntriesInit ==
    /\ PipelineIdle
    /\ ImageIdle
    /\ WalkIdle
    /\ AnalysisIdle
    /\ extracted \in ContentsSet
    /\ entries = <<>>
    /\ result = NewResult
    /\ next = 1
    /\ archive = <<>>
    /\ epc = "images"

\* one round of "for _, img := range contents.Images"
ImageRound ==
    /\ epc = "images"
    /\ next <= Len(extracted.Images)
    /\ LET img == extracted.Images[next]
           r == Process(processor, img)
       IN IF r.err # ""
          THEN /\ result' = [result EXCEPT !.Errors = Append(@, <<r.err, img.Path>>)]
               /\ entries' = Append(entries, KeepOnError(img))
          ELSE /\ entries' = Append(entries, [Path |-> r.NewPath, Data |-> r.Data])
               /\ result' =
                    [result EXCEPT
                       !.ImagesProcessed =
                           IF CountsAsProcessed(r) THEN @ + 1 ELSE @,
                       !.ImagesSkipped =
                           IF CountsAsProcessed(r) THEN @ ELSE @ + 1,
                       !.PNGsConverted = IF r.WasConverted THEN @ + 1 ELSE @]
    /\ next' = next + 1
    /\ UNCHANGED <<extracted, archive, epc, imageVars, walkVars, analysisVars, pipelineVars>>

\* the image loop ends
ImagesDone ==
    /\ epc = "images"
    /\ next > Len(extracted.Images)
    /\ epc' = "others"
    /\ next' = 1
    /\ UNCHANGED <<extracted, entries, result, archive, imageVars, walkVars, analysisVars, pipelineVars>>

\* one round of "for _, other := range contents.OtherFiles"
OtherRound ==
    /\ epc = "others"
    /\ next <= Len(extracted.OtherFiles)
    /\ entries' = Append(entries, OtherEntry(extracted.OtherFiles[next]))
    /\ next' = next + 1
    /\ UNCHANGED <<extracted, result, archive, epc, imageVars, walkVars, analysisVars, pipelineVars>>

\* p.writer.CreateTemp(cbzPath, entries)
CreateTemp ==
    /\ epc = "others"
    /\ next > Len(extracted.OtherFiles)
    /\ \E ok \in BOOLEAN :
         IF ok
         THEN /\ archive' = WrittenEntries(entries)
              /\ epc' = "written"
         ELSE /\ epc' = "failed"
              /\ UNCHANGED archive
    /\ UNCHANGED <<extracted, entries, result, next, imageVars, walkVars, analysisVars, pipelineVars>>

EntriesNext == ImageRound \/ ImagesDone \/ OtherRound \/ CreateTemp

EntriesSpec == EntriesInit /\ [][EntriesNext]_vars

\* ---------------------------------------------------------------- ProcessDirectory's walk
\* A walked path is a sequence of names, a name a sequence of tokens whose
\* last one is the extension when the name has more than one token.
Slash == <<"/">>
Dot == <<".">>
Cwd == <<Slash, <<"w">>>>

Lib == <<"lib">>
Sub == <<"s">>
Bak == <<"originals_backup">>
Vol == <<"vol">>

\* the directories below the working directory
TreeDirs ==
    {Cwd, Cwd \o <<Lib>>, Cwd \o <<Lib, Sub>>, Cwd \o <<Lib, Bak>>,
     Cwd \o <<Bak>>, Cwd \o <<Bak, Vol>>}

\* the files below the working directory
TreeFiles ==
    {Cwd \o <<Lib, <<"a", ".cbz">>>>,
     Cwd \o <<Lib, <<"._", "a", ".cbz">>>>,
     Cwd \o <<Lib, <<"notes", ".txt">>>>,
     Cwd \o <<Lib, Sub, <<"b", ".CBZ">>>>,
     Cwd \o <<Lib, Bak, <<"x", ".cbz">>>>,
     Cwd \o <<Bak, <<"x", ".cbz">>>>,
     Cwd \o <<Bak, Vol, <<"c", ".cbz">>>>}

\* the names of the tree in the lexical order filepath.Walk reads them in
SortedNames ==
    <<<<"._", "a", ".cbz">>, <<"a", ".cbz">>, <<"b", ".CBZ">>, <<"c", ".cbz">>,
      Lib, <<"notes", ".txt">>, Bak, Sub, Vol, <<"x", ".cbz">>>>

IsAbs(path) == path # <<>> /\ path[1] = Slash

\* filepath.Clean: "." elements are dropped; the empty path is "."
Clean(path) ==
    LET kept == SelectSeq(path, LAMBDA n : n # Dot)
    IN IF kept = <<>> THEN <<Dot>> ELSE kept

\* filepath.Join(path, name)
Join(path, name) == Clean(path \o <<name>>)

\* filepath.Abs(path)
Abs(path) == IF IsAbs(path) THEN Clean(path) ELSE Clean(Cwd \o path)

\* info.IsDir() of a walked path
IsDir(path) == Abs(path) \in TreeDirs

\* the names readDirNames returns for a directory, sorted
ReadDirNames(path) ==
    SelectSeq(SortedNames,
              LAMBDA n : Abs(path) \o <<n>> \in TreeDirs \cup TreeFiles)

\* filepath.Ext of a walked path: the extension of its last name
WalkExt(path) ==
    LET name == path[Len(path)]
    IN IF Len(name) > 1 THEN name[Len(name)] ELSE ""

\* absPath == backupDirAbs
IsBackupDir(path) == Abs(path) = Abs(cfg.BackupDir)

\* walkFn's verdict on a path: "skip" for filepath.SkipDir, "add" when the
\* path is appended to cbzFiles (a file, so nothing to descend into), else
\* "go on"
WalkFn(path) ==
    IF IsDir(path) /\ IsBackupDir(path) THEN "skip"
    ELSE IF ~IsDir(path) /\ ToLower(WalkExt(path)) = ".cbz" THEN "add"
    ELSE IF ~cfg.Recursive /\ IsDir(path) /\ path # dirPath THEN "skip"
    ELSE "go on"

\* the skip patterns of cbz-compress.yaml
SkipPatterns == {<<"._", "*">>, <<".DS_Store">>, <<"__MACOSX">>}

\* the roots and backup directories a run can be given
RootPaths ==
    {<<Lib>>, <<Dot, Lib>>, Cwd \o <<Lib>>, <<Dot>>, <<Bak>>, <<Bak, Vol>>,
     <<Lib, Sub>>}

BackupDirs ==
    {<<Bak>>, <<Dot, Bak>>, Cwd \o <<Bak>>, <<Lib, Bak>>, <<Lib>>}

\* ProcessDirectory(dirPath) at filepath.Walk(dirPath, walkFn)
WalkInit ==
    /\ RunIdle
    /\ ImageIdle
    /\ EntriesIdle
    /\ AnalysisIdle
    /\ cfg \in [BackupDir : BackupDirs, Recursive : BOOLEAN,
                SkipPatterns : {SkipPatterns}]
    /\ dirPath \in RootPaths
    /\ cbzFiles = <<>>
    /\ stack = <<dirPath>>
    /\ wpc = "walk"

\* filepath.Walk visits the next path: lstat or ReadDir may fail, which ends
\* the walk with an error; otherwise walkFn is called and the children of
\* a directory that was not skipped are visited next
WalkVisit ==
    /\ wpc = "walk"
    /\ stack # <<>>
    /\ LET path == Head(stack)
           children == [k \in 1 .. Len(ReadDirNames(path)) |->
                          Join(path, ReadDirNames(path)[k])]
       IN \E ok \in BOOLEAN :
            IF ~ok
            THEN /\ wpc' = "failed"
                 /\ UNCHANGED <<stack, cbzFiles>>
            ELSE /\ cbzFiles' = IF WalkFn(path) = "add"
                                THEN Append(cbzFiles, path) ELSE cbzFiles
                 /\ stack' = IF IsDir(path) /\ WalkFn(path) = "go on"
                             THEN children \o Tail(stack)
                             ELSE Tail(stack)
                 /\ UNCHANGED wpc
    /\ UNCHANGED <<dirPath, runRestVars, imageVars, entryVars, analysisVars>>

\* filepath.Walk returned nil: totalFiles := len(cbzFiles)
WalkDone ==
    /\ wpc = "walk"
    /\ stack = <<>>
    /\ wpc' = "done"
    /\ UNCHANGED <<dirPath, stack, pipelineVars, imageVars, entryVars, analysisVars>>

WalkNext == WalkVisit \/ WalkDone

WalkSpec == WalkInit /\ [][WalkNext]_vars

\* ---------------------------------------------------------------- cbz.Writer and cbz.Reader
\* An entry name of a zip archive is a sequence of characters, its data a
\* sequence of bytes.
Str1 == <<"p", "a", "g", "e", "2", ".", "j", "p", "g">>
Str2 == <<"p", "a", "g", "e", "1", "0", ".", "j", "p", "g">>
Str3 == <<"1", ".", "j", "p", "g", ".", "p", "n", "g">>
Str4 == <<"0", "0", "0", "0", "1", ".", "j", "p", "g">>
Str5 == <<"1", ".", "j", "p", "g", ".", "j", "p", "g">>
Str6 == <<"a", ".", "x", "m", "l">>
Str7 == <<".", "a", ".", "x", "m", "l">>
Str8 == <<"d", "/">>
Str9 == <<"_", "_", "M", "A", "C", "O", "S", "X", "/", "a", ".", "x", "m", "l">>

\* page2.jpg, page10.jpg, 1.jpg.png, 00001.jpg, 1.jpg.jpg, a.xml, .a.xml,
\* d/, __MACOSX/a.xml and the empty name
EntryNames == {Str1, Str2, Str3, Str4, Str5, Str6, Str7, Str8, Str9, <<>>}

\* the byte value of a character
Code(c) ==
    CASE c = "." -> 46 [] c = "/" -> 47 [] c = "0" -> 48 [] c = "1" -> 49
      [] c = "2" -> 50 [] c = "A" -> 65 [] c = "C" -> 67 [] c = "G" -> 71
      [] c = "J" -> 74 [] c = "M" -> 77 [] c = "P" -> 80
      [] c = "O" -> 79 [] c = "S" -> 83 [] c = "X" -> 88 [] c = "_" -> 95
      [] c = "a" -> 97 [] c = "d" -> 100 [] c = "e" -> 101 [] c = "g" -> 103
      [] c = "j" -> 106 [] c = "l" -> 108 [] c = "m" -> 109 [] c = "n" -> 110
      [] c = "p" -> 112 [] c = "x" -> 120

isDigit(c) == Code(c) >= Code("0") /\ Code(c) <= Code("0") + 9

\* the end of the digit run of s that starts at start (one past its last digit)
RECURSIVE DigitsEnd(_, _)
DigitsEnd(s, end) ==
    IF end <= Len(s) /\ isDigit(s[end]) THEN DigitsEnd(s, end + 1) ELSE end

\* num = num*10 + int(s[i]-'0') for i from start up to end
RECURSIVE DigitsValue(_, _, _, _)
DigitsValue(s, k, end, num) ==
    IF k < end
    THEN DigitsValue(s, k + 1, end, num * 10 + (Code(s[k]) - Code("0")))
    ELSE num

\* extractNumber(s, start): the number and the position after it
extractNumber(s, start) ==
    LET end == DigitsEnd(s, start)
    IN <<DigitsValue(s, start, end, 0), end>>

\* naturalLess's loop from the positions ai and bi
RECURSIVE NaturalLessFrom(_, _, _, _)
NaturalLessFrom(a, b, ai, bi) ==
    IF ai <= Len(a) /\ bi <= Len(b)
    THEN IF isDigit(a[ai]) /\ isDigit(b[bi])
         THEN LET na == extractNumber(a, ai)
                  nb == extractNumber(b, bi)
              IN IF na[1] # nb[1] THEN na[1] < nb[1]
                 ELSE NaturalLessFrom(a, b, na[2], nb[2])
         ELSE IF a[ai] # b[bi] THEN Code(a[ai]) < Code(b[bi])
              ELSE NaturalLessFrom(a, b, ai + 1, bi + 1)
    ELSE Len(a) < Len(b)

naturalLess(a, b) == NaturalLessFrom(a, b, 1, 1)

\* sort.Slice on a short slice is an insertion sort: the element at j moves
\* down while it is less than the one before it
RECURSIVE Sink(_, _)
Sink(s, j) ==
    IF j > 1 /\ naturalLess(s[j].Path, s[j - 1].Path)
    THEN Sink([s EXCEPT ![j] = s[j - 1], ![j - 1] = s[j]], j - 1)
    ELSE s

RECURSIVE InsertionSort(_, _)
InsertionSort(s, k) ==
    IF k > Len(s) THEN s ELSE InsertionSort(Sink(s, k), k + 1)

SortSlice(s) == InsertionSort(s, 2)

\* strings.Contains(s, sub)
Contains(s, sub) ==
    \E k \in 1 .. Len(s) - Len(sub) + 1 : SubSeq(s, k, k + Len(sub) - 1) = sub

\* strings.HasPrefix(s, prefix)
HasPrefix(s, prefix) ==
    Len(s) >= Len(prefix) /\ SubSeq(s, 1, Len(prefix)) = prefix

\* the position of the last occurrence of character c in s, 0 if none
LastIndex(s, c) ==
    IF \E k \in 1 .. Len(s) : s[k] = c
    THEN CHOOSE k \in 1 .. Len(s) : s[k] = c /\ \A m \in k + 1 .. Len(s) : s[m] # c
    ELSE 0

\* s without its trailing slashes
RECURSIVE StripSlashes(_)
StripSlashes(s) ==
    IF s # <<>> /\ s[Len(s)] = "/" THEN StripSlashes(SubSeq(s, 1, Len(s) - 1))
    ELSE s

\* filepath.Base(name): "." for the empty name, "/" for slashes only
FileBase(name) ==
    IF name = <<>> THEN <<".">>
    ELSE LET s == StripSlashes(name)
         IN IF s = <<>> THEN <<"/">>
            ELSE SubSeq(s, LastIndex(s, "/") + 1, Len(s))

\* filepath.Ext(name): from the last dot of the last element, or empty
FileExt(name) ==
    LET slash == LastIndex(name, "/")
        dot == LastIndex(name, ".")
    IN IF dot > slash THEN SubSeq(name, dot, Len(name)) ELSE <<>>

LowerChar(c) ==
    CASE c = "A" -> "a" [] c = "C" -> "c" [] c = "G" -> "g" [] c = "J" -> "j"
      [] c = "M" -> "m" [] c = "O" -> "o" [] c = "P" -> "p" [] c = "S" -> "s"
      [] c = "X" -> "x" [] OTHER -> c

\* strings.ToLower
StrToLower(s) == [k \in 1 .. Len(s) |-> LowerChar(s[k])]

MacMarker == <<"_", "_", "M", "A", "C", "O", "S", "X">>

\* SupportedImageExtensions of reader.go
SupportedImageExtensions ==
    {<<".", "j", "p", "g">>, <<".", "j", "p", "e", "g">>, <<".", "p", "n", "g">>,
     <<".", "g", "i", "f">>, <<".", "w", "e", "b", "p">>, <<".", "b", "m", "p">>}

\* file.FileInfo().IsDir() of a zip entry: its name ends in a slash
IsDirName(name) == name # <<>> /\ name[Len(name)] = "/"

\* Extract's test for hidden files
IsHidden(name) ==
    \/ HasPrefix(FileBase(name), <<".">>)
    \/ HasPrefix(FileBase(name), MacMarker)
    \/ Contains(name, MacMarker)

\* the zip entries Extract reads: not directories, not hidden
Kept(zipFiles) ==
    SelectSeq(zipFiles, LAMBDA f : ~IsDirName(f.Name) /\ ~IsHidden(f.Name))

IsImageName(name) == StrToLower(FileExt(name)) \in SupportedImageExtensions

\* Reader.Extract on the entries of a zip archive, when every read succeeds
ExtractContents(zipFiles) ==
    LET imgs == SelectSeq(Kept(zipFiles), LAMBDA f : IsImageName(f.Name))
        others == SelectSeq(Kept(zipFiles), LAMBDA f : ~IsImageName(f.Name))
    IN [Images |-> SortSlice([k \in 1 .. Len(imgs) |->
                                 [Path |-> imgs[k].Name,
                                  OriginalSize |-> Len(imgs[k].Data),
                                  Data |-> imgs[k].Data]]),
        OtherFiles |-> [k \in 1 .. Len(others) |->
                           [Path |-> others[k].Name, Data |-> others[k].Data]]]

\* the data of an entry: up to MaxData bytes
DataSet == UNION {[1 .. n -> {0}] : n \in 0 .. MaxData}

WriteEntries == [Path : EntryNames, Data : DataSet]

EntryLists == UNION {[1 .. n -> WriteEntries] : n \in 0 .. MaxZip}

\* the archive Create is asked to write, and the archive that may be there
OutputPath == <<"out/", "x", ".cbz">>

\* the temp file while the zip writer is open, and the finished archive
PartialZip(zipFiles) == [tag |-> "partial", files |-> zipFiles]
FinishedZip(zipFiles) == [tag |-> "zip", files |-> zipFiles]

OldZip == FinishedZip(<<[Name |-> Str6, Data |-> <<>>]>>)

\* a Write that never reaches the archive
EntryDataLost(e) == <<>>

\* the bytes writer.Write(entry.Data) puts into the entry
EntryData(e) == e.Data

\* a failure path that leaves the temp file behind
CleanupNone(f, tempPath) == f

\* os.Remove(tempPath) of Create's failure paths
Cleanup(f, tempPath) == Remove(f, tempPath)

\* Writer.Create(OutputPath, entries) is called
ArchiveInit ==
    /\ cfg = [Force |-> FALSE, DryRun |-> FALSE, Verbose |-> FALSE, Workers |-> 1]
    /\ cbzFiles = <<>>
    /\ RunIdleButFs
    /\ ImageIdle
    /\ WalkIdle
    /\ AnalysisIdle
    /\ fs \in {<<>>, (OutputPath :> OldZip)}
    /\ fs0 = fs
    /\ entries \in EntryLists
    /\ extracted = NoContents
    /\ result = NewResult
    /\ archive = <<>>
    /\ next = 0
    /\ epc = "w_open"

\* the directory run's variables that stay idle while fs is in use
idleVars ==
    <<files, numWorkers, pc, job, contents, i, backupPath, err, ret, touched,
      steps, cb, mu, smu, jobs, jobsClosed, results, resultsClosed, sent, wg,
      batch, calls, res, reported, started, summaries>>

archiveFrame ==
    <<fs0, entries, result, archive, imageVars, walkVars, analysisVars, cbzFiles, cfg, idleVars>>

\* Create failed: the temp file is removed and the error returned
CreateFails ==
    /\ fs' = Cleanup(fs, TmpOf(OutputPath))
    /\ epc' = "w_failed"
    /\ UNCHANGED next

\* os.MkdirAll(dir) and os.Create(tempPath)
WOpen ==
    /\ epc = "w_open"
    /\ \E ok \in BOOLEAN :
         IF ok
         THEN /\ fs' = WriteFile(fs, TmpOf(OutputPath), PartialZip(<<>>))
              /\ next' = 1
              /\ epc' = "w_entry"
         ELSE /\ epc' = "w_not_opened"
              /\ UNCHANGED <<fs, next>>
    /\ UNCHANGED <<extracted, archiveFrame>>

\* zipWriter.CreateHeader(header) for the next entry
WHeader ==
    /\ epc = "w_entry"
    /\ next <= Len(entries)
    /\ \E ok \in BOOLEAN :
         IF ok
         THEN /\ fs' = [fs EXCEPT ![TmpOf(OutputPath)].files =
                           Append(@, [Name |-> entries[next].Path, Data |-> <<>>])]
              /\ epc' = "w_data"
              /\ UNCHANGED next
         ELSE CreateFails
    /\ UNCHANGED <<extracted, archiveFrame>>

\* writer.Write(entry.Data): a directory entry takes no data
WData ==
    /\ epc = "w_data"
    /\ \E ok \in BOOLEAN :
         IF ok /\ ~(IsDirName(entries[next].Path) /\ entries[next].Data # <<>>)
         THEN /\ fs' = [fs EXCEPT ![TmpOf(OutputPath)].files[next].Data =
                           EntryData(entries[next])]
              /\ next' = next + 1
              /\ epc' = "w_entry"
         ELSE CreateFails
    /\ UNCHANGED <<extracted, archiveFrame>>

\* zipWriter.Close() after the last entry
WZipClose ==
    /\ epc = "w_entry"
    /\ next > Len(entries)
    /\ \E ok \in BOOLEAN :
         IF ok
         THEN /\ fs' = [fs EXCEPT ![TmpOf(OutputPath)].tag = "zip"]
              /\ epc' = "w_fclose"
              /\ UNCHANGED next
         ELSE CreateFails
    /\ UNCHANGED <<extracted, archiveFrame>>

\* f.Close()
WFileClose ==
    /\ epc = "w_fclose"
    /\ \E ok \in BOOLEAN :
         IF ok
         THEN /\ epc' = "w_rename"
              /\ UNCHANGED <<fs, next>>
         ELSE CreateFails
    /\ UNCHANGED <<extracted, archiveFrame>>

\* os.Rename(tempPath, outputPath)
WRename ==
    /\ epc = "w_rename"
    /\ \E ok \in BOOLEAN :
         IF ok
         THEN /\ fs' = Rename(fs, TmpOf(OutputPath), OutputPath)
              /\ epc' = "created"
              /\ UNCHANGED next
         ELSE CreateFails
    /\ UNCHANGED <<extracted, archiveFrame>>

\* Reader.Extract(OutputPath) on the archive Create wrote
ReaderExtract ==
    /\ epc = "created"
    /\ \E ok \in BOOLEAN :
         IF ok
         THEN /\ extracted' = ExtractContents(fs[OutputPath].files)
              /\ epc' = "extracted"
         ELSE /\ epc' = "x_failed"
              /\ UNCHANGED extracted
    /\ UNCHANGED <<fs, next, archiveFrame>>

ArchiveNext ==
    WOpen \/ WHeader \/ WData \/ WZipClose \/ WFileClose \/ WRename \/ ReaderExtract

ArchiveSpec == ArchiveInit /\ [][ArchiveNext]_vars

\* ---------------------------------------------------------------- analyzer.Analyzer
\* the largest threshold, in MB per page, and the largest archive, in MB
MaxThreshold == 2
MaxArchiveMB == 4

\* a.JPG, .a.jpg, __MACOSX/1.jpg and d.jpg/
Str10 == <<"a", ".", "J", "P", "G">>
Str11 == <<".", "a", ".", "j", "p", "g">>
Str12 == <<"_", "_", "M", "A", "C", "O", "S", "X", "/", "1", ".", "j", "p", "g">>
Str13 == <<"d", ".", "j", "p", "g", "/">>

\* the entry names of the archives Analyze scans
ScanNames == {Str1, Str3, Str6, Str10, Str11, Str12, Str13}

ScanLists ==
    UNION {[1 .. n -> [Name : ScanNames, Data : {<<0>>}]] : n \in 0 .. MaxZip}

\* what image.DecodeConfig finds in an entry's data: an error, or the width
\* and the height of the image
DecodeConfigs ==
    {[ok |-> FALSE, Width |-> 0, Height |-> 0]} \cup
    [ok : {TRUE}, Width : {1, MaxDim + 1}, Height : {1, MaxDim + 1}]

\* supportedImageExtensions of the analyzer
supportedImageExtensions ==
    {<<".", "j", "p", "g">>, <<".", "j", "p", "e", "g">>, <<".", "p", "n", "g">>,
     <<".", "g", "i", "f">>, <<".", "w", "e", "b", "p">>, <<".", "b", "m", "p">>}

\* a scan that keeps the entries under __MACOSX
ScanSkipsNoMac(name) ==
    IsDirName(name) \/ HasPrefix(FileBase(name), <<".">>)

\* the entries Analyze's scan passes over: directories and hidden files
ScanSkips(name) ==
    \/ IsDirName(name)
    \/ HasPrefix(FileBase(name), <<".">>)
    \/ Contains(name, MacMarker)

\* one round of Analyze's loop over zipReader.File: the entry is counted as
\* a page before it is opened and decoded, c being what DecodeConfig finds
ScanEntry(a, file, c, r) ==
    LET ext == StrToLower(FileExt(file.Name))
        page == [r EXCEPT !.PageCount = @ + 1,
                          !.HasNonJPEG =
                              @ \/ (/\ ext # <<".", "j", "p", "g">>
                                    /\ ext # <<".", "j", "p", "e", "g">>)]
    IN IF ScanSkips(file.Name) THEN r
       ELSE IF ext \notin supportedImageExtensions THEN r
       ELSE IF ~c.ok THEN page
       ELSE [page EXCEPT
                !.MaxWidth = IF c.Width > @ THEN c.Width ELSE @,
                !.MaxHeight = IF c.Height > @ THEN c.Height ELSE @,
                !.HasOversized =
                    @ \/ c.Width > a.maxDimension \/ c.Height > a.maxDimension]

RECURSIVE Scan(_, _, _, _, _)
Scan(a, zipFiles, cfgs, k, r) ==
    IF k > Len(zipFiles) THEN r
    ELSE Scan(a, zipFiles, cfgs, k + 1, ScanEntry(a, zipFiles[k], cfgs[k], r))

\* float64(FileSize) / float64(PageCount) / (1024 * 1024), sizes being in MB:
\* the quotient as a fraction
MBPerPage(fileSize, pageCount) ==
    IF pageCount > 0 THEN [num |-> fileSize, den |-> pageCount]
    ELSE [num |-> 0, den |-> 1]

\* a threshold test that is met at the threshold
ExceedsOrMeets(mb, threshold) == mb.num >= threshold * mb.den

\* result.MBPerPage > a.thresholdMBPage
Exceeds(mb, threshold) == mb.num > threshold * mb.den

\* Analyzer.shouldProcess: the verdict, and the SkipReason it sets
shouldProcess(a, r) ==
    IF r.HasOversized THEN [r EXCEPT !.NeedsProcessing = TRUE]
    ELSE IF r.HasNonJPEG THEN [r EXCEPT !.NeedsProcessing = TRUE]
    ELSE IF Exceeds(r.MBPerPage, a.thresholdMBPage)
    THEN [r EXCEPT !.NeedsProcessing = TRUE]
    ELSE [r EXCEPT !.NeedsProcessing = FALSE,
                   !.SkipReason = <<"already optimized", r.MBPerPage,
                                    r.MaxWidth, r.MaxHeight>>]

\* Analyzer.Analyze on an archive of fileSize MB
AnalyzeZip(a, zipFiles, fileSize, cfgs) ==
    LET scanned == Scan(a, zipFiles, cfgs, 1,
                        [NoAnalysis EXCEPT !.called = TRUE,
                                           !.FileSize = fileSize])
    IN shouldProcess(a, [scanned EXCEPT
                            !.MBPerPage = MBPerPage(fileSize, scanned.PageCount)])

\* NewAnalyzer(maxDimension, thresholdMBPage) and an archive to analyze
AnalyzeInit ==
    /\ cfg = [Force |-> FALSE, DryRun |-> FALSE, Verbose |-> FALSE, Workers |-> 1]
    /\ cbzFiles = <<>>
    /\ RunIdleButFs
    /\ ImageIdle
    /\ WalkIdle
    /\ \E zipFiles \in ScanLists : fs = (OutputPath :> FinishedZip(zipFiles))
    /\ fs0 = fs
    /\ entries = <<>>
    /\ extracted = NoContents
    /\ result = NewResult
    /\ archive = <<>>
    /\ next = 0
    /\ epc = "created"
    /\ analyzer \in [maxDimension : {MaxDim}, thresholdMBPage : 0 .. MaxThreshold]
    /\ analysis = NoAnalysis

\* Analyzer.Analyze(OutputPath): os.Stat or zip.OpenReader may fail
AnalyzerAnalyze ==
    /\ ~analysis.called
    /\ epc \in {"created", "extracted", "x_failed"}
    /\ \E ok \in BOOLEAN, fileSize \in 0 .. MaxArchiveMB :
         \E cfgs \in [1 .. Len(fs[OutputPath].files) -> DecodeConfigs] :
           analysis' =
               IF ok
               THEN AnalyzeZip(analyzer, fs[OutputPath].files, fileSize, cfgs)
               ELSE [NoAnalysis EXCEPT !.called = TRUE,
                                       !.err = "failed to open CBZ"]
    /\ UNCHANGED <<analyzer, fs, extracted, next, epc>>
    /\ UNCHANGED <<fs0, entries, result, archive, imageVars, walkVars, cbzFiles,
                   cfg, idleVars>>

AnalyzeNext == AnalyzerAnalyze \/ ReaderExtract

AnalyzeSpec == AnalyzeInit /\ [][AnalyzeNext]_vars

\* ---------------------------------------------------------------- properties
Returned(t, label) ==
    pc[t] = "ret" /\ ret[t].err # <<>> /\ ret[t].err[1] = label

\* some path of the backup directory holds exactly the bytes c
InBackup(c) == \E q \in DOMAIN fs : InBackupDir(q) /\ fs[q] = c

\* C1: when ProcessFile returns "rename failed (original restored)", the source
\* path holds the bytes it held before the call and the temp archive is gone.
C1_RestoredSourceIsOriginal ==
    \A t \in Threads :
        Returned(t, "rename failed (original restored)") =>
            /\ Exists(fs, cbzPath(t))
            /\ fs[cbzPath(t)] = Original(job[t])
            /\ ~Exists(fs, tempOutput(t))

\* C2: a MoveToBackup call that has chosen its backup path and not yet moved
\* the file holds a path that no file occupies and that no other call has
\* chosen: the move never overwrites a backup and two calls never share a name.
C2_MoveToBackupCritical ==
    \A t \in Threads :
        pc[t] = "mb_rename" =>
            /\ ~Exists(fs, backupPath[t])
            /\ \A u \in Threads \ {t} :
                   pc[u] = "mb_rename" => backupPath[u] # backupPath[t]

\* a worker has chosen a suffixed name because the plain name holds the
\* original another worker of this run just moved there, while the other
\* worker has gone on
C2_Witness ==
    \E t \in Workers : \E u \in Workers \ {t} :
        /\ pc[t] = "mb_rename"
        /\ backupPath[t] = SuffixedPath(BackupPath(cbzPath(t)), 1)
        /\ job[u] # 0
        /\ Exists(fs, BackupPath(cbzPath(t)))
        /\ fs[BackupPath(cbzPath(t))] = Original(job[u])

\* C3: with the dry-run flag set nothing is extracted and the file system
\* stays as it was before the run, whatever the other flags.
C3_DryRunNoMutation ==
    cfg.DryRun =>
        /\ fs = fs0
        /\ \A t \in Threads :
               pc[t] \notin {"pf_images", "pf_images_in", "pf_create"}

PerFileCallbacks ==
    {"OnFileStart", "OnFileSkipped", "OnImageProcessed", "OnDryRunFile",
     "OnFileComplete"}

\* C4: in a parallel run every per-file callback on the underlying reporter
\* runs under the SafeReporter mutex, so no two callbacks run at once.
C4_CallbacksSerialized ==
    numWorkers >= 2 =>
        /\ \A t \in Threads : cb[t] \in PerFileCallbacks => smu = t
        /\ Cardinality({t \in Threads : cb[t] # ""}) <= 1

\* C5: the original bytes of every candidate archive are at its source path
\* or at some path of the backup directory, in every reachable state.
C5_OriginalKept ==
    \A n \in 1 .. Len(files) :
        \/ Exists(fs, cbzFiles[n]) /\ fs[cbzFiles[n]] = Original(n)
        \/ InBackup(Original(n))

CommitOrder ==
    <<"write-temp", "verify-temp", "move-original-to-backup",
      "rename-temp-to-original">>

IsPrefix(a, b) == Len(a) <= Len(b) /\ a = SubSeq(b, 1, Len(a))

\* C6: the commit steps a ProcessFile call has completed are always a prefix
\* of write-temp, verify-temp, move-original-to-backup, rename-temp-to-original.
C6_CommitOrder == \A t \in Threads : IsPrefix(steps[t], CommitOrder)

\* a call that went through all four steps
C6_Witness == \E t \in Threads : pc[t] = "ret" /\ steps[t] = CommitOrder

\* C7: when ProcessFile returns "verification failed" the temp archive and
\* Create's temp file are gone, the source path holds the original bytes and
\* the call changed no path of the backup directory.
C7_VerifyFailure ==
    \A t \in Threads :
        Returned(t, "verification failed") =>
            /\ ~Exists(fs, tempOutput(t))
            /\ ~Exists(fs, TmpOf(tempOutput(t)))
            /\ Exists(fs, cbzPath(t))
            /\ fs[cbzPath(t)] = Original(job[t])
            /\ \A q \in touched[t] : ~InBackupDir(q)

\* a forced run on an archive without images fails verification
C7_Witness ==
    \E t \in Threads :
        /\ Returned(t, "verification failed")
        /\ cfg.Force
        /\ files[job[t]].pages = 0

\* C8: when ProcessFile returns "backup failed" the temp archive is gone and
\* the source path holds the original bytes.
C8_BackupFailure ==
    \A t \in Threads :
        Returned(t, "backup failed") =>
            /\ ~Exists(fs, tempOutput(t))
            /\ Exists(fs, cbzPath(t))
            /\ fs[cbzPath(t)] = Original(job[t])

\* the move into the backup directory failed
C8_Witness ==
    \E t \in Threads :
        /\ Returned(t, "backup failed")
        /\ ret[t].err[2] = "failed to move to backup"

RestoreErrors == {"backup file not found", "restore rename error"}

CarriesBoth(e) ==
    /\ Len(e) = 3
    /\ e[2] = "rename error"
    /\ e[3] \in RestoreErrors

IsCritical(e) == e # <<>> /\ e[1] = "CRITICAL"

Last(q) == q[Len(q)]

\* the batch counted file n as failed with the error e
CountedFailed(n, e) ==
    /\ batch'.FailedFiles = batch.FailedFiles + 1
    /\ batch'.ProcessedFiles = batch.ProcessedFiles
    /\ batch'.SkippedFiles = batch.SkippedFiles
    /\ batch'.Results = Append(batch.Results, FailedResult(n, e))

C9_Step ==
    /\ \A t \in Threads :
           (pc'[t] = "ret" /\ IsCritical(ret'[t].err)) => CarriesBoth(ret'[t].err)
    /\ (pc[0] = "ret" /\ IsCritical(ret[0].err) /\ pc'[0] # "ret") =>
           CountedFailed(job[0], ret[0].err)
    /\ \A t \in Workers :
           (pc[t] = "ret" /\ IsCritical(ret[t].err) /\ pc'[t] # "ret") =>
               results' = Append(results, [Job |-> job[t], Result |-> ret[t]])
    /\ (results # <<>> /\ IsCritical(Head(results).Result.err)
          /\ Len(results') < Len(results)) =>
           /\ results' = Tail(results)
           /\ CountedFailed(Head(results).Job, Head(results).Result.err)

\* C9: a failed rename followed by a failed restore makes ProcessFile return
\* one CRITICAL error that carries the rename error and the restore error, and
\* either path of the directory run counts that file as failed.
C9_CriticalError == [][C9_Step]_vars

\* the batch holds a file that failed with the critical error
C9_Witness ==
    \E k \in 1 .. Len(batch.Results) :
        /\ IsCritical(batch.Results[k].err)
        /\ batch.FailedFiles >= 1

Finished == pc[0] \in {"summary", "summary_in", "done"}

\* C10: no ProcessFile call is repeated, and when the directory run is over
\* every collected path has had exactly one call and has exactly one Result,
\* and ProcessedFiles + SkippedFiles + FailedFiles = TotalFiles.
C10_NoFailFast ==
    /\ \A n \in 1 .. Len(cbzFiles) : calls[n] <= 1
    /\ Finished =>
        /\ \A n \in 1 .. Len(cbzFiles) :
               /\ calls[n] = 1
               /\ Cardinality({k \in 1 .. Len(batch.Results) :
                                 batch.Results[k].SourcePath = cbzFiles[n]}) = 1
        /\ Len(batch.Results) = Len(cbzFiles)
        /\ batch.TotalFiles = Len(cbzFiles)
        /\ batch.ProcessedFiles + batch.SkippedFiles + batch.FailedFiles
             = batch.TotalFiles

\* a sequential run whose first file failed and whose second was processed
C10_Witness ==
    /\ pc[0] = "done"
    /\ numWorkers = 1
    /\ Len(batch.Results) = 2
    /\ batch.Results[1].err # <<>>
    /\ batch.Results[2].err = <<>>
    /\ ~batch.Results[2].Skipped

\* the Result the batch holds for the n-th collected path
ResultOf(n) ==
    batch.Results[CHOOSE k \in 1 .. Len(batch.Results) :
                      batch.Results[k].SourcePath = cbzFiles[n]]

\* what processDirectorySequential builds from the first k paths when every
\* file has the outcome the batch holds for it
RECURSIVE SequentialTotals(_)
SequentialTotals(k) ==
    IF k = 0 THEN [EmptyBatch EXCEPT !.TotalFiles = Len(cbzFiles)]
    ELSE Collect(SequentialTotals(k - 1), k, ResultOf(k))

Aggregate(b) ==
    <<b.ProcessedFiles, b.SkippedFiles, b.FailedFiles, b.TotalOriginal,
      b.TotalCompressed>>

\* C11: when a directory run is over, its aggregate totals are the ones the
\* sequential loop computes from the same per-file outcomes taken in list
\* order, whatever the order in which the workers completed.
C11_SameTotals ==
    (Finished /\ Len(batch.Results) = Len(cbzFiles)) =>
        Aggregate(batch) = Aggregate(SequentialTotals(Len(cbzFiles)))

\* a parallel run that collected the second file before the first, both
\* processed
C11_Witness ==
    /\ Finished
    /\ numWorkers >= 2
    /\ Len(batch.Results) = 2
    /\ batch.Results[1].SourcePath = cbzFiles[2]
    /\ batch.ProcessedFiles = 2
    /\ batch.TotalCompressed > 0

\* the qualities Process encodes the image at: the configured one and, when
\* that encoding is larger than the original, each lower one down to
\* MinQuality until an encoding fails or is smaller than the original
Attempted(p, e) ==
    {p.jpegQuality} \cup
    {q \in Qualities :
        /\ q < p.jpegQuality /\ q >= MinQuality
        /\ e.Data.enc[p.jpegQuality] > e.OriginalSize
        /\ \A r \in Qualities :
               (r > q /\ r < p.jpegQuality) =>
                   /\ e.Data.enc[r] # EncodeFails
                   /\ e.Data.enc[r] >= e.OriginalSize}

\* an already-JPEG image within the maximum dimension that no attempted
\* encoding makes smaller
KeepOriginalCase(p, e) ==
    /\ ToLower(Ext(e.Path)) \in {".jpg", ".jpeg"}
    /\ e.Data.decodes
    /\ e.Data.width <= p.maxDimension /\ e.Data.height <= p.maxDimension
    /\ e.Data.enc[p.jpegQuality] # EncodeFails
    /\ \A q \in Attempted(p, e) :
           e.Data.enc[q] = EncodeFails \/ e.Data.enc[q] >= e.OriginalSize

\* C20: keep-original law: for such an image Process returns the original
\* bytes, the original path, NewSize = OriginalSize and WasConverted = FALSE.
C20_KeepOriginal ==
    (processed.called /\ KeepOriginalCase(processor, entry)) =>
        /\ processed.err = ""
        /\ processed.Data = entry.Data
        /\ processed.NewPath = entry.Path
        /\ processed.NewSize = entry.OriginalSize
        /\ ~processed.WasConverted

\* the configured quality gives an encoding of exactly the original size,
\* or the adaptive loop ran to its end without a smaller encoding
C20_Witness ==
    /\ processed.called
    /\ KeepOriginalCase(processor, entry)
    /\ \/ entry.Data.enc[processor.jpegQuality] = entry.OriginalSize
       \/ /\ processor.jpegQuality = MaxQuality
          /\ \A q \in Qualities : entry.Data.enc[q] > entry.OriginalSize

\* the images the loop has been through
Handled(j) == epc # "images" \/ j < next

Range(q) == {q[k] : k \in 1 .. Len(q)}

\* C12: an image whose Process call fails leaves its original path and bytes
\* in the entry at its position and its error in Result.Errors; every image
\* handled so far has an entry, and ProcessFile fails only in CreateTemp,
\* after every image and every other file has its entry.
C12_ImageErrorNonFatal ==
    /\ \A j \in 1 .. Len(extracted.Images) :
           (Handled(j) /\ Process(processor, extracted.Images[j]).err # "") =>
               /\ entries[j] = [Path |-> extracted.Images[j].Path,
                                Data |-> extracted.Images[j].Data]
               /\ <<Process(processor, extracted.Images[j]).err,
                     extracted.Images[j].Path>> \in Range(result.Errors)
    /\ epc = "images" => Len(entries) = next - 1
    /\ epc \in {"written", "failed"} =>
           Len(entries) = Len(extracted.Images) + Len(extracted.OtherFiles)

\* the first image failed, the second was converted, the archive was written
C12_Witness ==
    /\ epc = "written"
    /\ Len(extracted.Images) = 2
    /\ Process(processor, extracted.Images[1]).err # ""
    /\ Process(processor, extracted.Images[2]).WasConverted
    /\ Len(result.Errors) = 1

\* C13: every non-image file of the extracted contents is in the written
\* archive under its path with its bytes.
C13_OthersPassThrough ==
    epc = "written" =>
        \A j \in 1 .. Len(extracted.OtherFiles) :
            \E k \in 1 .. Len(archive) :
                /\ archive[k].Name = extracted.OtherFiles[j].Path
                /\ archive[k].Data = extracted.OtherFiles[j].Data

\* an archive with a non-image file, one failed and one converted image
C13_Witness ==
    /\ epc = "written"
    /\ Len(extracted.OtherFiles) = 1
    /\ Len(result.Errors) = 1
    /\ result.PNGsConverted = 1

AnalyzerPcs == {"pf_analyze", "pf_dryrun", "pf_dryrun_in", "pf_skip", "pf_skip_in"}

C14_Step ==
    cfg.Force =>
        \A t \in Threads :
            /\ pc'[t] \notin AnalyzerPcs
            /\ ~ret'[t].Skipped
            /\ (pc[t] = "pf_stat" /\ pc'[t] # "pf_stat") =>
                   \/ pc'[t] = "pf_extract"
                   \/ pc'[t] = "ret" /\ ret'[t].err = <<"failed to stat">>

\* C14: with the force flag set no ProcessFile call is ever in the analyzer,
\* in the dry-run or in the skip branch, none returns a skipped result, and
\* a call leaves os.Stat either failed or at Extract.
C14_ForceSkipsAnalysis == [][C14_Step]_vars

\* a forced call is at Extract on an archive the analyzer would have skipped
C14_Witness ==
    \E t \in Threads :
        /\ cfg.Force
        /\ pc[t] = "pf_extract"
        /\ ~NeedsProcessing(fs[cbzPath(t)])

\* path lies below dir
Inside(path, dir) ==
    /\ Len(Abs(path)) > Len(Abs(dir))
    /\ SubSeq(Abs(path), 1, Len(Abs(dir))) = Abs(dir)

\* C15: no collected path lies inside the configured backup directory.
C15_BackupExcluded ==
    \A k \in 1 .. Len(cbzFiles) : ~Inside(cbzFiles[k], cfg.BackupDir)

\* a glob pattern matches a name; "*" stands for any run of tokens
RECURSIVE Match(_, _)
Match(pattern, name) ==
    IF pattern = <<>> THEN name = <<>>
    ELSE IF Head(pattern) = "*"
    THEN \/ Match(Tail(pattern), name)
         \/ name # <<>> /\ Match(pattern, Tail(name))
    ELSE name # <<>> /\ Head(name) = Head(pattern)
         /\ Match(Tail(pattern), Tail(name))

\* C16: no collected path has a name that matches a configured skip pattern.
C16_SkipPatternsExcluded ==
    \A k \in 1 .. Len(cbzFiles) :
        \A pattern \in cfg.SkipPatterns :
            ~Match(pattern, cbzFiles[k][Len(cbzFiles[k])])

\* the i-th name MoveToBackup can give the backup of path: the base name,
\* then the base name with the suffix _1, _2, ...
BackupName(path, k) ==
    IF k = 0 THEN BackupPath(path) ELSE SuffixedPath(BackupPath(path), k)

\* the state ProcessFile promises for thread t's file on a real success
SuccessState(t) ==
    /\ Exists(fs, cbzPath(t))
    /\ fs[cbzPath(t)] = NewBytes(Original(job[t]))
    /\ \E k \in 0 .. MaxFiles + MaxPre :
           /\ Exists(fs, BackupName(cbzPath(t), k))
           /\ fs[BackupName(cbzPath(t), k)] = Original(job[t])
    /\ ~Exists(fs, tempOutput(t))
    /\ ~Exists(fs, TmpOf(tempOutput(t)))

C19_Step ==
    \A t \in Threads :
        (/\ pc[t] # "ret"
         /\ pc'[t] = "ret"
         /\ ret'[t].err = <<>>
         /\ ~ret'[t].Skipped
         /\ ~ret'[t].Dry) => SuccessState(t)'

\* C19: at the step in which ProcessFile returns success for a file that was
\* neither skipped nor a dry run, the source path holds the new archive, the
\* original bytes are in the backup directory under the base name or a
\* suffixed one, and the temp archive is gone.
C19_SuccessState == [][C19_Step]_vars

\* the batch-level callback is being made or has returned
SummaryIssued == cb[0] \in {"OnBatchComplete", "OnDryRunComplete"} \/ pc[0] = "done"

\* C18: when the batch-level summary callback is issued, every file of the
\* run, whether it succeeded, was skipped or failed, has had a per-file
\* outcome callback (OnFileSkipped, OnFileComplete or OnDryRunFile).
C18_EveryFileReported ==
    SummaryIssued => \A n \in 1 .. Len(cbzFiles) : n \in reported

\* the run was started on a file system where every collected archive is
\* there and has the verdict needs-processing = false
AllOptimized ==
    \A n \in DOMAIN cbzFiles :
        Exists(fs0, cbzFiles[n]) /\ ~NeedsProcessing(fs0[cbzFiles[n]])

\* C17: without force, a ProcessFile call on an archive whose verdict is
\* needs-processing = false changes no path, leaves the archive's bytes as
\* they were, and returns a skipped Result when it returns one; a run over
\* such archives only leaves the whole file system, backup directory
\* included, as it was. This holds in the first run and in the run after it.
C17_SkipIdempotent ==
    /\ \A t \in Threads :
          (/\ job[t] # 0
           /\ Exists(fs0, cbzPath(t))
           /\ ~NeedsProcessing(fs0[cbzPath(t)])) =>
              /\ touched[t] = {}
              /\ Exists(fs, cbzPath(t))
              /\ fs[cbzPath(t)] = fs0[cbzPath(t)]
              /\ (pc[t] = "ret" /\ ret[t].err = <<>>) => ret[t].Skipped
    /\ AllOptimized => fs = fs0

\* the second run skips an archive, with a backup directory that is not empty
C17_Witness ==
    \E t \in Threads :
        /\ pc[t] = "ret"
        /\ calls[job[t]] = MaxRuns
        /\ ret[t].Skipped
        /\ ~ret[t].Dry
        /\ fs[cbzPath(t)] = Original(job[t])
        /\ \E q \in DOMAIN fs : InBackupDir(q)

IsJPEGPath(path) == ToLower(Ext(path)) \in {".jpg", ".jpeg"}

\* C21: for an entry that is a JPEG by extension and was not resized, the
\* ProcessedImage Process returns has NewSize <= the entry's original size,
\* whatever sizes the encoder produces.
C21_NeverLarger ==
    (/\ processed.called
     /\ processed.err = ""
     /\ IsJPEGPath(entry.Path)
     /\ ~processed.WasResized) => processed.NewSize <= entry.OriginalSize

\* a JPEG whose first encoding is larger than the original and that the
\* adaptive loop brought below the original size
C21_Witness ==
    /\ processed.called
    /\ processed.err = ""
    /\ IsJPEGPath(entry.Path)
    /\ ~processed.WasResized
    /\ entry.Data.enc[processor.jpegQuality] > entry.OriginalSize
    /\ processed.NewSize < entry.OriginalSize

\* the sizes of the encodings Process obtained
AttemptSizes(p, e) ==
    {e.Data.enc[q] : q \in {r \in Attempted(p, e) : e.Data.enc[r] # EncodeFails}}

\* C30: when the first encoding is larger than the original, the encoding
\* Process holds after the adaptive loop is the smallest of the encodings
\* it attempted.
C30_SmallestAttempt ==
    (/\ processed.called
     /\ entry.Data.decodes
     /\ entry.Data.enc[processor.jpegQuality] # EncodeFails
     /\ entry.Data.enc[processor.jpegQuality] > entry.OriginalSize) =>
        \A size \in AttemptSizes(processor, entry) :
            entry.Data.enc[CandidateQuality(processor, entry)] <= size

\* C22: the images Extract returns are in natural order of path: no image
\* is followed by one that naturalLess puts before it, and page2.jpg comes
\* before page10.jpg whenever the archive has both.
C22_NaturalOrder ==
    epc = "extracted" =>
        LET imgs == extracted.Images
        IN /\ \A k, m \in 1 .. Len(imgs) :
                  k < m => ~naturalLess(imgs[m].Path, imgs[k].Path)
           /\ \A k, m \in 1 .. Len(imgs) :
                  (imgs[k].Path = Str1 /\ imgs[m].Path = Str2) => k < m

\* C23: when Create fails after the temp file was created, outputPath holds
\* what it held before the call (or is still absent) and there is no file
\* at outputPath + ".tmp".
C23_CreateAtomic ==
    epc = "w_failed" =>
        /\ Exists(fs, OutputPath) <=> Exists(fs0, OutputPath)
        /\ Exists(fs, OutputPath) => fs[OutputPath] = fs0[OutputPath]
        /\ ~Exists(fs, TmpOf(OutputPath))

\* Create failed at zipWriter.Close, f.Close or os.Rename, with entries
\* written to the temp file and an older archive at outputPath
C23_Witness ==
    /\ epc = "w_failed"
    /\ Len(entries) > 0
    /\ next > Len(entries)
    /\ Exists(fs0, OutputPath)

\* the written entry k comes back among the other files, path and data
ReadBack(k) ==
    \E m \in 1 .. Len(extracted.OtherFiles) :
        /\ extracted.OtherFiles[m].Path = entries[k].Path
        /\ extracted.OtherFiles[m].Data = entries[k].Data

\* every entry read was written
NothingAdded ==
    \A e \in Range(extracted.Images) \cup Range(extracted.OtherFiles) :
        \E k \in 1 .. Len(entries) :
            entries[k].Path = e.Path /\ entries[k].Data = e.Data

\* C24 as stated: after Create and Extract every non-image entry written
\* comes back with its path and data, and nothing else was added.
C24_RoundTrip ==
    epc = "extracted" =>
        /\ \A k \in 1 .. Len(entries) :
               ~IsImageName(entries[k].Path) => ReadBack(k)
        /\ NothingAdded

\* a path Extract does not skip: not empty, not ending in a slash, its base
\* name not starting with a dot, and without the marker __MACOSX
Visible(path) ==
    /\ path # <<>>
    /\ path[Len(path)] # "/"
    /\ path[LastIndex(path, "/") + 1] # "."
    /\ ~Contains(path, MacMarker)

\* C24 amended: after Create and Extract every non-image entry written whose
\* path Extract does not skip comes back with its path and data, and
\* nothing else was added.
C24_RoundTripVisible ==
    epc = "extracted" =>
        /\ \A k \in 1 .. Len(entries) :
               (~IsImageName(entries[k].Path) /\ Visible(entries[k].Path)) =>
                   ReadBack(k)
        /\ NothingAdded

\* a.xml with data was written next to an entry Extract skips, and read
C24_Witness ==
    /\ epc = "extracted"
    /\ \E k \in 1 .. Len(entries) :
           entries[k].Path = Str6 /\ entries[k].Data # <<>>
    /\ \E k \in 1 .. Len(entries) : entries[k].Path = Str7

\* the names of path in the backup directory that are taken
Taken(f, path) == {k \in 0 .. MaxFiles + MaxPre : Exists(f, BackupName(path, k))}

\* the step of thread t is MoveToBackup's successful os.Rename
Stores(t) ==
    /\ pc[t] = "mb_rename"
    /\ pc'[t] = "pf_rename"

C25_Step ==
    \A t \in Threads :
        /\ (pc[t] = "mb_stat" /\ pc'[t] = "mb_rename") =>
               /\ 0 \notin Taken(fs, cbzPath(t))
               /\ backupPath'[t] = BackupName(cbzPath(t), 0)
        /\ (pc[t] = "mb_stat" /\ pc'[t] = "mb_unique") =>
               0 \in Taken(fs, cbzPath(t))
        /\ Stores(t) =>
               \E k \in 0 .. MaxFiles + MaxPre :
                   /\ backupPath[t] = BackupName(cbzPath(t), k)
                   /\ k \notin Taken(fs, cbzPath(t))
                   /\ \A m \in 1 .. k - 1 : m \in Taken(fs, cbzPath(t))
                   /\ fs'[backupPath[t]] = fs[cbzPath(t)]

\* C25: MoveToBackup picks the base name when its os.Stat finds that name
\* free and a suffixed name when it finds it taken; the file is stored under
\* a name that was free, and a suffixed name _k is the one with the smallest
\* k >= 1 that does not exist in the backup directory. Two files with the
\* same base name so get distinct names that differ by the suffix only.
C25_SmallestFreeName == [][C25_Step]_vars

\* a file was stored under x_1.cbz while x.cbz holds the original of another
\* file of this run
C25_Witness ==
    \E t \in Threads :
        /\ pc[t] = "pf_rename"
        /\ backupPath[t] = BackupName(cbzPath(t), 1)
        /\ fs[backupPath[t]] = Original(job[t])
        /\ Exists(fs, BackupName(cbzPath(t), 0))
        /\ \E n \in 1 .. Len(cbzFiles) :
               n # job[t] /\ fs[BackupName(cbzPath(t), 0)] = Original(n)

\* the files whose results the orchestrator has collected
CollectedFiles == {batch.Results[k].SourcePath : k \in 1 .. Len(batch.Results)}

\* C26: in the parallel path the result channel is closed only when every
\* worker has returned, a worker has returned only when the job channel is
\* closed and empty, no worker is about to send on a closed result channel,
\* and when the collecting loop has ended every file's result was received.
C26_CloseAfterWorkers ==
    numWorkers > 1 =>
        /\ resultsClosed => \A t \in 1 .. numWorkers : pc[t] = "w_exit"
        /\ \A t \in 1 .. numWorkers :
               pc[t] = "w_exit" =>
                   jobsClosed /\ jobs = <<>> /\ sent = Len(cbzFiles)
        /\ \A t \in 1 .. numWorkers : pc[t] = "ret" => ~resultsClosed
        /\ Finished =>
               /\ resultsClosed
               /\ results = <<>>
               /\ Len(batch.Results) = Len(cbzFiles)
               /\ CollectedFiles = {cbzFiles[n] : n \in 1 .. Len(cbzFiles)}

\* two workers have returned, the result channel is closed and both
\* results were collected
C26_Witness ==
    /\ numWorkers = 2
    /\ resultsClosed
    /\ pc[0] = "done"
    /\ Len(batch.Results) = 2

\* C27: the parallel path terminates: once the workers are started, the job
\* channel is eventually closed, every worker exits, the result channel is
\* closed and processDirectoryParallel returns.
C27_Terminates ==
    (numWorkers > 1) ~>
        (/\ pc[0] = "done"
         /\ jobsClosed
         /\ resultsClosed
         /\ \A t \in 1 .. numWorkers : pc[t] = "w_exit")

\* a parallel run of three files on two workers, where the channels hold
\* fewer jobs and results than there are files, has returned
C27_Witness ==
    /\ numWorkers = 2
    /\ Len(cbzFiles) = 3
    /\ pc[0] = "done"
    /\ jobsClosed
    /\ resultsClosed

\* the steps by which ProcessDirectory hands a non-empty file list to one of
\* its two paths
C28_Step ==
    LET total == Len(cbzFiles)
        capped == IF cfg.Workers > total THEN total ELSE cfg.Workers
        count == IF capped < 1 THEN 1 ELSE capped
    IN /\ (pc[0] = "ProcessDirectory" /\ total > 0 /\ pc'[0] # pc[0]) =>
              /\ numWorkers' = count
              /\ (count = 1) <=> (pc'[0] = "seq_loop")
              /\ count > 1 =>
                     /\ pc'[0] = "collect"
                     /\ {t \in Workers : pc'[t] = "w_recv"} = 1 .. count
                     /\ wg' = count
       /\ numWorkers' = 1 =>
              /\ \A t \in Workers : pc'[t] = "idle"
              /\ wg' = 0
              /\ jobs' = <<>> /\ results' = <<>>
              /\ ~jobsClosed' /\ ~resultsClosed'

\* C28: for a non-empty file list ProcessDirectory uses min(configured
\* workers, number of files), at least 1, as its worker count; with a count
\* of 1 it runs the files itself, and no worker, job or result ever exists;
\* otherwise it starts exactly that many workers.
C28_WorkerCount == [][C28_Step]_vars

\* two workers were configured for a single file and the run was sequential
C28_Witness ==
    /\ cfg.Workers = 2
    /\ Len(cbzFiles) = 1
    /\ numWorkers = 1
    /\ pc[0] = "done"

\* the errors ProcessFile returns before it has a temp archive: os.Stat,
\* Analyze, Extract and CreateTemp
EarlyFailures ==
    {"failed to stat", "analysis failed", "failed to open CBZ",
     "failed to create compressed CBZ"}

\* C29: when the stat, the analysis, the extraction or the creation of the
\* temp archive fails, ProcessFile returns its error with the source file as
\* it was before the run, nothing written by the call but the temp file of
\* Writer.Create, which is gone again, no backup step taken, and the
\* directory run still calls ProcessFile once for every file.
C29_EarlyFailureClean ==
    /\ \A t \in Threads :
           (\E l \in EarlyFailures : Returned(t, l)) =>
               /\ Exists(fs, cbzPath(t)) <=> Exists(fs0, cbzPath(t))
               /\ Exists(fs, cbzPath(t)) => fs[cbzPath(t)] = fs0[cbzPath(t)]
               /\ touched[t] \subseteq {TmpOf(tempOutput(t))}
               /\ \A q \in touched[t] : ~InBackupDir(q)
               /\ steps[t] = <<>>
               /\ backupPath[t] = NoPath
               /\ ~Exists(fs, TmpOf(tempOutput(t)))
               /\ ~Exists(fs, tempOutput(t))
    /\ (Finished /\ batch.FailedFiles > 0) =>
           /\ \A n \in 1 .. Len(cbzFiles) : calls[n] = 1
           /\ Len(batch.Results) = Len(cbzFiles)

\* the first of two files failed while its temp archive was written, the temp
\* file is gone, and the sequential run went on to compress the second file
C29_Witness ==
    /\ numWorkers = 1
    /\ Len(cbzFiles) = 2
    /\ pc[0] = "done"
    /\ batch.FailedFiles = 1
    /\ batch.ProcessedFiles = 1
    /\ batch.Results[1].err = <<"failed to create compressed CBZ">>
    /\ ~Exists(fs, TmpOf(TempPath(cbzFiles[1])))
    /\ Exists(fs, cbzFiles[1]) /\ fs[cbzFiles[1]] = fs0[cbzFiles[1]]
    /\ Exists(fs, cbzFiles[2]) /\ fs[cbzFiles[2]] # fs0[cbzFiles[2]]

\* C31: the adaptive retry of Process is entered only when the first encoding
\* is strictly larger than the original; its encodings are at the configured
\* quality minus 5, minus 10, ..., none below 60, and an attempt strictly
\* smaller than the original is the last one.
C31_AdaptiveRetry ==
    (/\ processed.called
     /\ entry.Data.decodes
     /\ entry.Data.enc[processor.jpegQuality] # EncodeFails) =>
        LET calls31 == RetryCalls(processor, entry)
        IN /\ calls31 # <<>> =>
                  entry.Data.enc[processor.jpegQuality] > entry.OriginalSize
           /\ \A k \in 1 .. Len(calls31) :
                  /\ calls31[k] = processor.jpegQuality - 5 * k
                  /\ calls31[k] >= 60
                  /\ (/\ entry.Data.enc[calls31[k]] # EncodeFails
                      /\ entry.Data.enc[calls31[k]] < entry.OriginalSize)
                         => k = Len(calls31)

\* the first encoding was larger than the original, the encoding at the
\* next quality is smaller, and quality 60 was never tried
C31_Witness ==
    /\ processed.called
    /\ processed.err = ""
    /\ processor.jpegQuality = 70
    /\ entry.Data.enc[70] > entry.OriginalSize
    /\ entry.Data.enc[65] # EncodeFails
    /\ entry.Data.enc[65] < entry.OriginalSize
    /\ RetryCalls(processor, entry) = <<65>>
    /\ processed.NewSize = entry.Data.enc[65]

\* the size of the smallest encoding Process obtained
BestSize(p, e) ==
    CHOOSE size \in AttemptSizes(p, e) :
        \A other \in AttemptSizes(p, e) : size <= other

\* C32: a non-JPEG entry, or a resized entry, whose best JPEG encoding is
\* not smaller than the original is returned as that JPEG encoding, with the
\* .jpg path for a non-JPEG entry, and not as the original bytes.
C32_FallbackOnlyJPEG ==
    (/\ processed.called
     /\ processed.err = ""
     /\ ~IsJPEGPath(entry.Path) \/ processed.WasResized
     /\ BestSize(processor, entry) >= entry.OriginalSize) =>
        /\ processed.Data.tag = "jpeg"
        /\ processed.Data # entry.Data
        /\ processed.NewSize = BestSize(processor, entry)
        /\ processed.Data.len = BestSize(processor, entry)
        /\ ~IsJPEGPath(entry.Path) =>
               /\ Ext(processed.NewPath) = ".jpg"
               /\ processed.WasConverted

\* C33: for an entry whose extension is not .jpg or .jpeg in any case, the
\* NewPath Process returns is the entry's path with its extension replaced by
\* .jpg, and WasConverted is true; for a .jpg or .jpeg entry NewPath is the
\* entry's path.
C33_ConvertedPath ==
    (processed.called /\ processed.err = "") =>
        IF IsJPEGPath(entry.Path)
        THEN processed.NewPath = entry.Path
        ELSE /\ processed.NewPath =
                    SubSeq(entry.Path, 1, Len(entry.Path) - 1) \o <<".jpg">>
             /\ processed.WasConverted

\* C34: Analyze sets NeedsProcessing exactly when HasOversized, or
\* HasNonJPEG, or the archive's MB per page (0 without pages) is strictly
\* above the threshold, and SkipReason is set exactly when NeedsProcessing
\* is false.
C34_Verdict ==
    (analysis.called /\ analysis.err = "") =>
        LET above ==
                IF analysis.PageCount = 0 THEN 0 > analyzer.thresholdMBPage
                ELSE analysis.FileSize >
                         analyzer.thresholdMBPage * analysis.PageCount
        IN /\ analysis.NeedsProcessing <=>
                  (analysis.HasOversized \/ analysis.HasNonJPEG \/ above)
           /\ (analysis.SkipReason # <<>>) <=> ~analysis.NeedsProcessing

\* an archive of JPEG pages within the maximum dimension whose MB per page
\* is exactly the threshold is skipped, with a reason
C34_Witness ==
    /\ analysis.called
    /\ analysis.err = ""
    /\ analysis.PageCount = 2
    /\ analyzer.thresholdMBPage = 2
    /\ analysis.FileSize = 4
    /\ analysis.MaxWidth > 0
    /\ ~analysis.NeedsProcessing
    /\ analysis.SkipReason # <<>>

\* C36: the Analyzer and the Reader select the same page entries of an
\* archive: Analyze's PageCount is the number of images Extract returns.
C36_SamePages ==
    (analysis.called /\ analysis.err = "" /\ epc = "extracted") =>
        analysis.PageCount = Len(extracted.Images)

\* an archive with a page a.JPG, an image under __MACOSX and a hidden image:
\* both count one page
C36_Witness ==
    /\ analysis.called
    /\ analysis.err = ""
    /\ epc = "extracted"
    /\ {fs[OutputPath].files[k].Name : k \in 1 .. Len(fs[OutputPath].files)} =
           {Str10, Str11, Str12}
    /\ analysis.PageCount = 1
    /\ Len(extracted.Images) = 1
    /\ extracted.Images[1].Path = Str10

\* neither path is before the other
Incomparable(a, b) == ~naturalLess(a, b) /\ ~naturalLess(b, a)

\* the zip entries in every order
Reordered(zipFiles) ==
    {[k \in 1 .. Len(zipFiles) |-> zipFiles[sigma[k]]] :
        sigma \in Permutations(1 .. Len(zipFiles))}

PagePaths(c) == [k \in 1 .. Len(c.Images) |-> c.Images[k].Path]

\* C35: on the image paths of an archive naturalLess is a strict weak
\* ordering - irreflexive, asymmetric, transitive, with transitive
\* incomparability - and the page order Extract returns is the same for
\* every order of the zip entries.
C35_StrictWeakOrder ==
    epc = "extracted" =>
        LET paths == {extracted.Images[k].Path : k \in 1 .. Len(extracted.Images)}
        IN /\ \A a \in paths : ~naturalLess(a, a)
           /\ \A a, b \in paths : naturalLess(a, b) => ~naturalLess(b, a)
           /\ \A a, b, c \in paths :
                  (naturalLess(a, b) /\ naturalLess(b, c)) => naturalLess(a, c)
           /\ \A a, b, c \in paths :
                  (Incomparable(a, b) /\ Incomparable(b, c)) => Incomparable(a, c)
           /\ \A other \in Reordered(fs[OutputPath].files) :
                  PagePaths(ExtractContents(other)) = PagePaths(extracted)

\* C37: once ProcessFile's image loop has ended, ImagesProcessed +
\* ImagesSkipped + len(Errors) is the number of extracted images and
\* PNGsConverted is at most ImagesProcessed; during the loop the three
\* counters add up to the images handled so far; and the entries handed to
\* the writer are one per extracted image, in order, then one per other file.
C37_Counters ==
    /\ result.ImagesProcessed + result.ImagesSkipped + Len(result.Errors) =
           (IF epc = "images" THEN next - 1 ELSE Len(extracted.Images))
    /\ result.PNGsConverted <= result.ImagesProcessed
    /\ epc \in {"written", "failed"} =>
           /\ Len(entries) = Len(extracted.Images) + Len(extracted.OtherFiles)
           /\ \A k \in 1 .. Len(extracted.Images) :
                  entries[k].Path \in
                      {extracted.Images[k].Path,
                       Process(processor, extracted.Images[k]).NewPath}
           /\ \A k \in 1 .. Len(extracted.OtherFiles) :
                  entries[Len(extracted.Images) + k].Path =
                      extracted.OtherFiles[k].Path
    /\ epc = "written" => Len(archive) = Len(entries)

\* two images, one that failed and one that was converted, and one other
\* file were written as three entries
C37_Witness ==
    /\ epc = "written"
    /\ Len(extracted.Images) = 2
    /\ Len(extracted.OtherFiles) = 1
    /\ Len(result.Errors) = 1
    /\ result.ImagesProcessed = 1
    /\ result.PNGsConverted = 1
    /\ Len(entries) = 3

\* the paths of a sequence of entries are pairwise distinct
DistinctPaths(es) ==
    \A k, m \in 1 .. Len(es) : k # m => es[k].Path # es[m].Path

\* C38: when the extracted images and other files have pairwise distinct
\* paths, so have the entries ProcessFile hands to the writer.
C38_DistinctPaths ==
    (/\ epc \in {"written", "failed"}
     /\ DistinctPaths(extracted.Images \o extracted.OtherFiles)) =>
        DistinctPaths(entries)

\* C39: a ProcessFile call writes, replaces or removes no candidate of the
\* run but its own: no path it changes is another file of the job list.
C39_OtherCandidatesUntouched ==
    \A t \in Threads :
        job[t] # 0 =>
            \A n \in 1 .. Len(cbzFiles) :
                n # job[t] => cbzFiles[n] \notin touched[t]

\* the batch-level callbacks, and the file a thread's callback is about
BatchCallbacks == {"OnBatchComplete", "OnDryRunComplete"}

AboutFile(t) == IF t = 0 /\ numWorkers > 1 THEN res ELSE job[t]

\* OnFileStart comes first for its file, and a batch-level callback is of the
\* kind the mode asks for and is issued when every worker has returned and no
\* result is waiting
CallbacksInOrder ==
    /\ \A t \in Threads :
           cb[t] \in PerFileCallbacks => AboutFile(t) \in started
    /\ \A t \in Threads :
           cb[t] \in BatchCallbacks =>
               /\ t = 0
               /\ cb[t] = IF cfg.DryRun THEN "OnDryRunComplete"
                                        ELSE "OnBatchComplete"
    /\ summaries >= 1 =>
           /\ \A t \in Workers : cb[t] = "" /\ pc[t] \in {"idle", "w_exit"}
           /\ cb[0] \notin PerFileCallbacks
           /\ results = <<>>
           /\ numWorkers > 1 => wg = 0 /\ resultsClosed
           /\ Len(batch.Results) = Len(cbzFiles)
           /\ started = 1 .. Len(cbzFiles)

\* in the sequential path callbacks and Results follow the file list
SequentialInOrder ==
    numWorkers = 1 =>
        /\ started = 1 .. job[0]
        /\ reported \subseteq 1 .. job[0]
        /\ \A k \in 1 .. Len(batch.Results) : batch.Results[k].SourcePath = cbzFiles[k]

\* no callback about a file begins once a batch-level callback was issued
NoPerFileAfterSummary ==
    summaries >= 1 =>
        \A t \in Threads : cb'[t] \in PerFileCallbacks => cb'[t] = cb[t]

\* C40 as stated: for every file OnFileStart is issued before any other
\* callback about it; every directory run issues exactly one batch-level
\* callback, of the kind the mode asks for, after every per-file callback and
\* after all workers have finished; the sequential path follows the file list.
C40_CallbackOrder ==
    /\ [](CallbacksInOrder /\ SequentialInOrder /\ summaries <= 1)
    /\ [](pc[0] = "done" => summaries = 1)
    /\ [][NoPerFileAfterSummary]_vars

\* C40, amended: the same, for a run whose walk found at least one file; a run
\* over no files issues no callback at all.
C40_CallbackOrderNonEmpty ==
    /\ [](CallbacksInOrder /\ SequentialInOrder /\ summaries <= 1)
    /\ [](pc[0] = "done" =>
              summaries = IF Len(cbzFiles) = 0 THEN 0 ELSE 1)
    /\ [](Len(cbzFiles) = 0 => started = {} /\ \A t \in Threads : cb[t] = "")
    /\ [][NoPerFileAfterSummary]_vars

\* a parallel run of two files has issued its batch-level callback after a
\* completion callback for each of them
C40_Witness ==
    /\ numWorkers = 2
    /\ Len(cbzFiles) = 2
    /\ cb[0] \in BatchCallbacks
    /\ summaries = 1
    /\ reported = {1, 2}

====
